---- MODULE Spec2Model ----
(***************************************************************************)
(* GameRoom (src/src/game-room.js): the Durable Object that runs one       *)
(* multiplayer room.  LOBBY -> COUNTDOWN -> PLAYING -> GAME_OVER -> LOBBY. *)
(*                                                                         *)
(* Units.  Wall-clock time and every duration are integers in             *)
(* milliseconds (the code divides Date.now() differences by 1000 and       *)
(* keeps seconds as floats: timeLeft, coinSpawnAccumulator and dt are the  *)
(* code's values times 1000).  Player x is in pixels; coin x and y are in  *)
(* thousandths of a pixel, so that y += speed * dt is exact for a speed in *)
(* px/s and a dt in ms.                                                    *)
(*                                                                         *)
(* The clock.  The code reads a timestamp only through its difference with *)
(* Date.now(), so the model moves the origin of time to the current        *)
(* instant after every event (Rebase): now is 0 between events, a stored   *)
(* timestamp is minus its age and the alarm is the time left to its        *)
(* deadline.  An age beyond Horizon is kept as Horizon: every threshold    *)
(* the code compares an age with is shorter.  The literal timestamp 0 of   *)
(* the code (lastPhysicsTime and lastBroadcastTime after construction,     *)
(* lastBroadcastTime after _startPlaying) is UnixEpoch, older than any age *)
(* the model keeps.                                                        *)
(*                                                                         *)
(* Handlers are atomic: a Durable Object runs one event at a time and its  *)
(* input gate holds other events while a handler awaits storage.           *)
(***************************************************************************)
EXTENDS Integers, Sequences, FiniteSets, TLC

\* --- Game constants (game-room.js 18-44) ---
CANVAS_WIDTH == 960
CANVAS_HEIGHT == 540
GROUND_Y == CANVAS_HEIGHT - 40
PLAYER_WIDTH == 60
PLAYER_HEIGHT == 70
COIN_RADIUS == 16
MsPerSecond == 1000
PxScale == MsPerSecond
BROADCAST_THROTTLE_MS == 50
FALLBACK_ALARM_MS == 1000
MAX_PHYSICS_DT == MsPerSecond \div 5
GAME_DURATION == 60
COUNTDOWN_SECONDS == 5
GAME_OVER_DISPLAY_SECONDS == 5
LOBBY_IDLE_TIMEOUT == 20
MAX_PLAYERS == 5
COIN_BASE_SPEED == 89
COIN_SPEED_VARIATION == 71
COIN_SPAWN_INTERVAL == MsPerSecond \div 2
COLLISION_FORGIVENESS == 8
PLAYER_COLORS == <<"#e74c3c", "#3498db", "#2ecc71", "#f39c12", "#9b59b6">>
MaxSockets == 20
MaxCoins == 50
CatchScore == 10
WinnerBonus == 50
ParticipationBonus == 25

\* --- Values that stand for JavaScript's null / undefined / no entry ---
NoAlarm == 0 - 1
Horizon == 10 * MsPerSecond
UnixEpoch == 0 - 2 * Horizon
ElapsedCap == (GAME_DURATION + 2) * MsPerSecond
NoUser == 0
NoGs == [none |-> TRUE]
NoPhys == [ran |-> FALSE]

VARIABLES
  state, players, waitingRoom, coins, nextCoinId, timeLeft, countdownSeconds,
  coinSpawnAccumulator, nextPlayerId, lastPhysicsTime, lastBroadcastTime,
  pendingCollected, initialized,
  gs, alarm, sockets, att, now,
  sent, phys, awarded, round, hist, d1

vars == <<state, players, waitingRoom, coins, nextCoinId, timeLeft,
          countdownSeconds, coinSpawnAccumulator, nextPlayerId, lastPhysicsTime,
          lastBroadcastTime, pendingCollected, initialized, gs, alarm, sockets,
          att, now, sent, phys, awarded, round, hist, d1>>

\* --- Small helpers ---
Min(a, b) == IF a < b THEN a ELSE b
Max(a, b) == IF a > b THEN a ELSE b
Range(s) == {s[i] : i \in 1..Len(s)}
Ids(m) == {m[i].id : i \in 1..Len(m)}
IdSeq(m) == [i \in 1..Len(m) |-> m[i].id]
\* Array.prototype.splice(i, 1)
Splice(s, i) == [k \in 1..(Len(s) - 1) |-> IF k < i THEN s[k] ELSE s[k + 1]]
\* Map.prototype.delete(id) on a map kept as the sequence of its entries in
\* insertion order
MapDelete(m, id) == SelectSeq(m, LAMBDA e : e.id # id)
\* The elements of a set of connection ids in ascending order: the order in
\* which ctx.getWebSockets() is taken to list the accepted sockets.
RECURSIVE SetToSeq(_)
SetToSeq(S) ==
  IF S = {} THEN << >>
  ELSE LET m == CHOOSE x \in S : \A y \in S : x <= y
       IN <<m>> \o SetToSeq(S \ {m})

(***************************************************************************)
(* The room as one record, so that a handler is the composition of the     *)
(* methods it calls.  The fields are the variables above:                  *)
(*   state .. initialized  the GameRoom instance's fields (constructor);   *)
(*   gs        ctx.storage's 'gs' entry (NoGs before the first put);       *)
(*   alarm     the pending alarm's deadline (NoAlarm when none);           *)
(*   sockets   ctx.getWebSockets(): the ids of the accepted, open sockets; *)
(*   att       each open socket's serialized attachment;                   *)
(*   now       the wall clock, Date.now();                                 *)
(*   sent      the messages the current handler delivered, in order;       *)
(*   phys      what the last physics step did (observation only);          *)
(*   awarded   the awardCoins batches dispatched so far in this round;     *)
(*   round     observation only, of the latest PLAYING period: whether it  *)
(*             is still open, its start time, the lowest timeLeft a        *)
(*             handler left behind in it, the next spawn serial, and the   *)
(*             serials of the objects credited once / more than once;      *)
(*   hist      observation only, kept by the specifications that need it:  *)
(*             the moves counted in a burst and those among them that      *)
(*             sent a gameState, the waiting connections in the order in   *)
(*             which they joined, the connections the last handler         *)
(*             promoted and the state it found, the connection requests    *)
(*             turned away, whether the room has been left to its alarm    *)
(*             and the restarts since then, the parity of the alarms       *)
(*             delivered,                                                  *)
(*             the outcomes of the awardCoins requests that have completed; *)
(*   d1        the D1 database as buyHat sees it: one user's coins_balance  *)
(*             and user_hats rows, and the buyHat requests in progress.     *)
(***************************************************************************)
Cur ==
  [state |-> state, players |-> players, waitingRoom |-> waitingRoom,
   coins |-> coins, nextCoinId |-> nextCoinId, timeLeft |-> timeLeft,
   countdownSeconds |-> countdownSeconds,
   coinSpawnAccumulator |-> coinSpawnAccumulator,
   nextPlayerId |-> nextPlayerId, lastPhysicsTime |-> lastPhysicsTime,
   lastBroadcastTime |-> lastBroadcastTime,
   pendingCollected |-> pendingCollected, initialized |-> initialized,
   gs |-> gs, alarm |-> alarm, sockets |-> sockets, att |-> att, now |-> now,
   sent |-> sent, phys |-> phys, awarded |-> awarded, round |-> round,
   hist |-> hist, d1 |-> d1]

Commit(w) ==
  /\ state' = w.state
  /\ players' = w.players
  /\ waitingRoom' = w.waitingRoom
  /\ coins' = w.coins
  /\ nextCoinId' = w.nextCoinId
  /\ timeLeft' = w.timeLeft
  /\ countdownSeconds' = w.countdownSeconds
  /\ coinSpawnAccumulator' = w.coinSpawnAccumulator
  /\ nextPlayerId' = w.nextPlayerId
  /\ lastPhysicsTime' = w.lastPhysicsTime
  /\ lastBroadcastTime' = w.lastBroadcastTime
  /\ pendingCollected' = w.pendingCollected
  /\ initialized' = w.initialized
  /\ gs' = w.gs
  /\ alarm' = w.alarm
  /\ sockets' = w.sockets
  /\ att' = w.att
  /\ now' = w.now
  /\ sent' = w.sent
  /\ phys' = w.phys
  /\ awarded' = w.awarded
  /\ round' = w.round
  /\ hist' = w.hist
  /\ d1' = w.d1

\* new GameRoom(ctx, env): the instance's fields after construction
Constructed(w) ==
  [w EXCEPT !.state = "LOBBY", !.players = << >>, !.waitingRoom = << >>,
            !.coins = << >>, !.nextCoinId = 1,
            !.timeLeft = GAME_DURATION * MsPerSecond,
            !.countdownSeconds = COUNTDOWN_SECONDS,
            !.coinSpawnAccumulator = 0, !.nextPlayerId = 1,
            !.lastPhysicsTime = UnixEpoch,
            !.lastBroadcastTime = UnixEpoch,
            !.pendingCollected = << >>, !.initialized = FALSE]

NoRound ==
  [open |-> FALSE, start |-> 0, low |-> 0, serial |-> 1, credited |-> {},
   twice |-> {}]

NoHist ==
  [moves |-> 0, sends |-> 0, queue |-> << >>, promoted |-> {}, from |-> "LOBBY",
   refused |-> 0, quiet |-> FALSE, restarts |-> 0, beat |-> 0, settled |-> << >>]

\* A user with no coins who owns the default hat; no request in progress
NoD1 == [balance |-> 0, wins |-> 0, hats |-> {"cap"}, reqs |-> << >>, credits |-> 0]

\* --- Sending (every ws.send sits in a try/catch: a closed socket sends nothing) ---
Msg(to, type, body) == [to |-> to, type |-> type, body |-> body]

\* _sendTo(ws, msg)
SendTo(w, c, type, body) ==
  IF c \in w.sockets THEN [w EXCEPT !.sent = Append(@, Msg(c, type, body))] ELSE w

\* A broadcast to every accepted socket, joined or not
BroadcastAllEveryone(w, type, body) ==
  LET to == SetToSeq(w.sockets)
  IN [w EXCEPT !.sent = @ \o [i \in 1..Len(to) |-> Msg(to[i], type, body)]]

\* _broadcastAll(msg): every accepted socket whose attachment role is not 'new'
BroadcastAll(w, type, body) ==
  LET to == SelectSeq(SetToSeq(w.sockets), LAMBDA c : w.att[c].role # "new")
  IN [w EXCEPT !.sent = @ \o [i \in 1..Len(to) |-> Msg(to[i], type, body)]]

\* _broadcastLobbyMsg()
BroadcastLobbyMsg(w) ==
  BroadcastAll(w, "lobby",
               [i \in 1..Len(w.players) |->
                  [playerId |-> w.players[i].id, color |-> w.players[i].color]])

\* A broadcast that stops at the first send that throws and evicts nobody
BroadcastGameStateAborting(w, collected) ==
  LET body == [timeLeft |-> w.timeLeft, collected |-> collected]
      to == [i \in 1..Len(w.players) |-> w.players[i].id]
              \o [i \in 1..Len(w.waitingRoom) |-> w.waitingRoom[i].id]
      dead == {i \in 1..Len(to) : to[i] \notin w.sockets}
      n == IF dead = {} THEN Len(to)
           ELSE (CHOOSE i \in dead : \A j \in dead : i <= j) - 1
  IN [w EXCEPT !.sent = @ \o [i \in 1..n |-> Msg(to[i], "gameState", body)]]

\* _broadcastGameState(collected): the in-memory maps, players first; an entry
\* whose send throws is deleted from its map.
BroadcastGameState(w, collected) ==
  LET body == [timeLeft |-> w.timeLeft, collected |-> collected]
      to == [i \in 1..Len(w.players) |-> w.players[i].id]
              \o [i \in 1..Len(w.waitingRoom) |-> w.waitingRoom[i].id]
      live == SelectSeq(to, LAMBDA c : c \in w.sockets)
  IN [w EXCEPT !.sent = @ \o [i \in 1..Len(live) |-> Msg(live[i], "gameState", body)],
               !.players = SelectSeq(@, LAMBDA p : p.id \in w.sockets),
               !.waitingRoom = SelectSeq(@, LAMBDA e : e.id \in w.sockets)]

\* --- Attachments and the persisted snapshot ---
NewAttachment(id) ==
  [playerId |-> id, role |-> "new", x |-> 0, score |-> 0, color |-> "",
   userId |-> NoUser]
PlayerAttachment(p) ==
  [playerId |-> p.id, role |-> "player", x |-> p.x, score |-> p.score,
   color |-> p.color, userId |-> p.userId]
WaitingAttachment(e) ==
  [playerId |-> e.id, role |-> "waiting", x |-> 0, score |-> 0,
   color |-> e.color, userId |-> e.userId]

\* Attachments left as the join wrote them
SavePlayerAttachmentsSkipped(w) == w

\* _savePlayerAttachments()
SavePlayerAttachments(w) ==
  LET ofPlayer(c) == CHOOSE p \in Range(w.players) : p.id = c
      ofWaiter(c) == CHOOSE e \in Range(w.waitingRoom) : e.id = c
  IN [w EXCEPT !.att =
        [c \in DOMAIN w.att |->
           IF c \in Ids(w.waitingRoom) THEN WaitingAttachment(ofWaiter(c))
           ELSE IF c \in Ids(w.players) THEN PlayerAttachment(ofPlayer(c))
           ELSE w.att[c]]]

Snapshot(w) ==
  [state |-> w.state, timeLeft |-> w.timeLeft,
   countdownSeconds |-> w.countdownSeconds, nextPlayerId |-> w.nextPlayerId,
   coins |-> w.coins, nextCoinId |-> w.nextCoinId,
   coinSpawnAccumulator |-> w.coinSpawnAccumulator,
   lastPhysicsTime |-> w.lastPhysicsTime]

\* _persistState()
PersistState(w) == SavePlayerAttachments([w EXCEPT !.gs = Snapshot(w)])

\* ctx.storage.setAlarm(Date.now() + ms): replaces any pending alarm
SetAlarm(w, ms) == [w EXCEPT !.alarm = w.now + ms]

\* --- Restoration (SpecQueue) ---
\* A restoration that leaves a restored COUNTDOWN to whatever alarm is pending
RearmAfterRestoreNoCountdown(w) ==
  IF w.state = "PLAYING" /\ Len(w.players) > 0 THEN SetAlarm(w, FALLBACK_ALARM_MS)
  ELSE IF w.state = "GAME_OVER"
    THEN SetAlarm(w, GAME_OVER_DISPLAY_SECONDS * MsPerSecond)
  ELSE IF w.state = "LOBBY" /\ Len(w.players) > 0
    THEN SetAlarm(w, LOBBY_IDLE_TIMEOUT * MsPerSecond)
  ELSE IF w.state = "PLAYING" /\ Len(w.players) = 0
    THEN [w EXCEPT !.state = "LOBBY", !.coins = << >>]
  ELSE w

\* The alarm _ensureInitialized re-arms for the restored state, and its
\* clean-up of a PLAYING state restored with no player.
RearmAfterRestore(w) ==
  IF w.state = "PLAYING" /\ Len(w.players) > 0 THEN SetAlarm(w, FALLBACK_ALARM_MS)
  ELSE IF w.state = "COUNTDOWN" THEN SetAlarm(w, MsPerSecond)
  ELSE IF w.state = "GAME_OVER"
    THEN SetAlarm(w, GAME_OVER_DISPLAY_SECONDS * MsPerSecond)
  ELSE IF w.state = "LOBBY" /\ Len(w.players) > 0
    THEN SetAlarm(w, LOBBY_IDLE_TIMEOUT * MsPerSecond)
  ELSE IF w.state = "PLAYING" /\ Len(w.players) = 0
    THEN [w EXCEPT !.state = "LOBBY", !.coins = << >>]
  ELSE w

\* The fields _ensureInitialized reads back from the 'gs' entry
LoadSnapshot(w) ==
  IF w.gs = NoGs THEN w
  ELSE [w EXCEPT !.state = w.gs.state, !.timeLeft = w.gs.timeLeft,
                 !.countdownSeconds = w.gs.countdownSeconds,
                 !.nextPlayerId = w.gs.nextPlayerId, !.coins = w.gs.coins,
                 !.nextCoinId = w.gs.nextCoinId,
                 !.coinSpawnAccumulator = w.gs.coinSpawnAccumulator,
                 !.lastPhysicsTime = IF w.gs.lastPhysicsTime = UnixEpoch THEN w.now
                                     ELSE w.gs.lastPhysicsTime]

\* The maps _ensureInitialized rebuilds from the live sockets' attachments
RebuildMaps(w) ==
  LET live == SetToSeq(w.sockets)
      ps == SelectSeq(live, LAMBDA c : w.att[c].role = "player")
      ws == SelectSeq(live, LAMBDA c : w.att[c].role = "waiting")
  IN [w EXCEPT
        !.players = [i \in 1..Len(ps) |->
                       [id |-> ps[i], x |-> w.att[ps[i]].x,
                        score |-> w.att[ps[i]].score,
                        color |-> w.att[ps[i]].color,
                        userId |-> w.att[ps[i]].userId]],
        !.waitingRoom = [i \in 1..Len(ws) |->
                           [id |-> ws[i], color |-> w.att[ws[i]].color,
                            userId |-> w.att[ws[i]].userId]]]

\* _ensureInitialized()
EnsureInitialized(w) ==
  IF w.initialized THEN w
  ELSE RearmAfterRestore(RebuildMaps(LoadSnapshot([w EXCEPT !.initialized = TRUE])))

\* --- State transitions ---
StartX == CANVAS_WIDTH \div 2 - PLAYER_WIDTH \div 2

\* A countdown that starts without its first tick scheduled
StartCountdownUnarmed(w) ==
  LET w1 == [w EXCEPT !.state = "COUNTDOWN", !.countdownSeconds = COUNTDOWN_SECONDS]
  IN BroadcastAll(w1, "countdown", w1.countdownSeconds)

\* _startCountdown()
StartCountdown(w) ==
  LET w1 == [w EXCEPT !.state = "COUNTDOWN", !.countdownSeconds = COUNTDOWN_SECONDS]
  IN SetAlarm(BroadcastAll(w1, "countdown", w1.countdownSeconds), MsPerSecond)

\* _startPlaying()
StartPlaying(w) ==
  LET n == Len(w.players)
  IN SetAlarm(
       [w EXCEPT !.state = "PLAYING", !.timeLeft = GAME_DURATION * MsPerSecond,
                 !.coins = << >>, !.nextCoinId = 1, !.coinSpawnAccumulator = 0,
                 !.lastPhysicsTime = w.now, !.lastBroadcastTime = UnixEpoch,
                 !.pendingCollected = << >>,
                 !.players = [i \in 1..n |->
                    [w.players[i] EXCEPT
                       !.score = 0,
                       !.x = (CANVAS_WIDTH * i) \div (n + 1) - PLAYER_WIDTH \div 2]],
                 !.awarded = << >>,
                 !.round = [open |-> TRUE, start |-> w.now,
                            low |-> GAME_DURATION * MsPerSecond,
                            serial |-> 1, credited |-> {}, twice |-> {}]],
       FALLBACK_ALARM_MS)

\* A waiting room that sends no notice
AddToWaitingRoomSilent(w, c, userId) ==
  LET color == PLAYER_COLORS[(Len(w.waitingRoom) % Len(PLAYER_COLORS)) + 1]
      e == [id |-> c, color |-> color, userId |-> userId]
  IN [w EXCEPT !.waitingRoom = Append(@, e),
               !.att = [@ EXCEPT ![c] = WaitingAttachment(e)]]

\* _addToWaitingRoom(playerId, ws, name, hat, userId)
AddToWaitingRoom(w, c, userId) ==
  LET color == PLAYER_COLORS[(Len(w.waitingRoom) % Len(PLAYER_COLORS)) + 1]
      e == [id |-> c, color |-> color, userId |-> userId]
      w1 == [w EXCEPT !.waitingRoom = Append(@, e),
                      !.att = [@ EXCEPT ![c] = WaitingAttachment(e)]]
  IN SendTo(w1, c, "waiting", 0)

\* A capacity test that lets one player too many in
LobbyIsFullLate(n) == n > MAX_PLAYERS

\* The capacity test that opens _addPlayerToLobby
LobbyIsFull(n) == n >= MAX_PLAYERS

\* A lobby where every join restarts the idle timer
AddPlayerToLobbyRestarting(w, c, userId) ==
  IF LobbyIsFull(Len(w.players)) THEN AddToWaitingRoom(w, c, userId)
  ELSE
    LET color == PLAYER_COLORS[(Len(w.players) % Len(PLAYER_COLORS)) + 1]
        p == [id |-> c, x |-> StartX, score |-> 0, color |-> color,
              userId |-> userId]
        w1 == [w EXCEPT !.players = Append(@, p),
                        !.att = [@ EXCEPT ![c] = PlayerAttachment(p)]]
        w3 == SetAlarm(BroadcastLobbyMsg(w1), LOBBY_IDLE_TIMEOUT * MsPerSecond)
    IN IF Len(w3.players) >= MAX_PLAYERS THEN StartCountdown(w3) ELSE w3

\* A lobby that leaves a full roster to the idle timer
AddPlayerToLobbyIdle(w, c, userId) ==
  IF Len(w.players) >= MAX_PLAYERS THEN AddToWaitingRoom(w, c, userId)
  ELSE
    LET color == PLAYER_COLORS[(Len(w.players) % Len(PLAYER_COLORS)) + 1]
        p == [id |-> c, x |-> StartX, score |-> 0, color |-> color,
              userId |-> userId]
        w1 == [w EXCEPT !.players = Append(@, p),
                        !.att = [@ EXCEPT ![c] = PlayerAttachment(p)]]
        w2 == BroadcastLobbyMsg(w1)
    IN IF Len(w2.players) = 1
         THEN SetAlarm(w2, LOBBY_IDLE_TIMEOUT * MsPerSecond) ELSE w2

\* _addPlayerToLobby(playerId, ws, name, hat, userId)
AddPlayerToLobby(w, c, userId) ==
  IF LobbyIsFull(Len(w.players)) THEN AddToWaitingRoom(w, c, userId)
  ELSE
    LET color == PLAYER_COLORS[(Len(w.players) % Len(PLAYER_COLORS)) + 1]
        p == [id |-> c, x |-> StartX, score |-> 0, color |-> color,
              userId |-> userId]
        w1 == [w EXCEPT !.players = Append(@, p),
                        !.att = [@ EXCEPT ![c] = PlayerAttachment(p)]]
        w2 == BroadcastLobbyMsg(w1)
        w3 == IF Len(w2.players) = 1
                THEN SetAlarm(w2, LOBBY_IDLE_TIMEOUT * MsPerSecond) ELSE w2
    IN IF Len(w3.players) >= MAX_PLAYERS THEN StartCountdown(w3) ELSE w3

\* A return to the lobby that promotes one waiting entry at most
PromoteCountOne(kept, waiting) == Min(waiting, 1)

\* How many waiting entries _returnToLobby promotes next to `kept` players
PromoteCount(kept, waiting) == Min(waiting, MAX_PLAYERS - kept)

\* A return to the lobby that leaves the kept players their colors
ReturnToLobbyKeepingColors(w) ==
  LET kept == Min(Len(w.players), MAX_PLAYERS)
      k == PromoteCount(kept, Len(w.waitingRoom))
      colorAt(index) == PLAYER_COLORS[(index % Len(PLAYER_COLORS)) + 1]
      old == [i \in 1..kept |-> [w.players[i] EXCEPT !.score = 0, !.x = StartX]]
      promoted == [i \in 1..k |->
                     [id |-> w.waitingRoom[i].id, x |-> StartX, score |-> 0,
                      color |-> colorAt(kept + i - 1),
                      userId |-> w.waitingRoom[i].userId]]
      w1 == [w EXCEPT !.state = "LOBBY", !.coins = << >>,
                      !.players = old \o promoted,
                      !.waitingRoom = SubSeq(@, k + 1, Len(@))]
      w2 == BroadcastLobbyMsg(w1)
  IN IF Len(w2.players) > 0
       THEN SetAlarm(w2, LOBBY_IDLE_TIMEOUT * MsPerSecond) ELSE w2

\* _returnToLobby()
ReturnToLobby(w) ==
  LET kept == Min(Len(w.players), MAX_PLAYERS)
      k == PromoteCount(kept, Len(w.waitingRoom))
      colorAt(index) == PLAYER_COLORS[(index % Len(PLAYER_COLORS)) + 1]
      old == [i \in 1..kept |->
                [w.players[i] EXCEPT !.color = colorAt(i - 1), !.score = 0,
                                     !.x = StartX]]
      promoted == [i \in 1..k |->
                     [id |-> w.waitingRoom[i].id, x |-> StartX, score |-> 0,
                      color |-> colorAt(kept + i - 1),
                      userId |-> w.waitingRoom[i].userId]]
      w1 == [w EXCEPT !.state = "LOBBY", !.coins = << >>,
                      !.players = old \o promoted,
                      !.waitingRoom = SubSeq(@, k + 1, Len(@))]
      w2 == BroadcastLobbyMsg(w1)
  IN IF Len(w2.players) > 0
       THEN SetAlarm(w2, LOBBY_IDLE_TIMEOUT * MsPerSecond) ELSE w2

\* --- Physics ---
(***************************************************************************)
(* A coin is [id, serial, x, y, speed, wobbleOffset, wobbleAmount]: x, y   *)
(* in thousandths of a pixel, speed in px/s, wobbleOffset in thousandths   *)
(* of a radian, wobbleAmount in thousandths of a pixel.  serial is         *)
(* observation only: it numbers the spawns of a PLAYING period, so that an *)
(* object keeps its identity when ids are reused.  rotation, rotationSpeed *)
(* and radius are left out: the server only serialises them.               *)
(*                                                                         *)
(* Math.random() is an input: a draw [x, speed, wobbleOffset,              *)
(* wobbleAmount] chosen by the action that runs the step.                  *)
(***************************************************************************)
TwoPiMilli == 6283
\* Math.sin at the middle of each eighth of the circle, times 1000
SinTable == <<383, 924, 924, 383, 0 - 383, 0 - 924, 0 - 924, 0 - 383>>
SinMilli(phase) == SinTable[(((phase % TwoPiMilli) * 8) \div TwoPiMilli) + 1]

\* A cap test that lets the count pass the cap by one
AtCoinCapLate(n) == n > MaxCoins

\* The cap test that opens _spawnCoin
AtCoinCap(n) == n >= MaxCoins

\* _spawnCoin()
SpawnCoin(w, draw) ==
  IF AtCoinCap(Len(w.coins)) THEN w
  ELSE [w EXCEPT
          !.coins = Append(@, [id |-> w.nextCoinId, serial |-> w.round.serial,
                               x |-> draw.x, y |-> (0 - COIN_RADIUS) * PxScale,
                               speed |-> draw.speed,
                               wobbleOffset |-> draw.wobbleOffset,
                               wobbleAmount |-> draw.wobbleAmount]),
          !.nextCoinId = @ + 1,
          !.round.serial = @ + 1]

\* while (coinSpawnAccumulator >= COIN_SPAWN_INTERVAL) { ...; _spawnCoin() }
\* (a step adds at most MAX_PHYSICS_DT to an accumulator below the interval,
\* so the loop body runs at most once and one draw serves the step)
RECURSIVE SpawnLoop(_, _)
SpawnLoop(w, draw) ==
  IF w.coinSpawnAccumulator >= COIN_SPAWN_INTERVAL
    THEN SpawnLoop(SpawnCoin([w EXCEPT !.coinSpawnAccumulator = @ - COIN_SPAWN_INTERVAL],
                             draw), draw)
    ELSE w

\* coin.y += coin.speed * dt; coin.x += Math.sin(coin.y * 0.02 + wobbleOffset) * wobbleAmount
MoveCoin(coin, dt) ==
  LET y == coin.y + coin.speed * dt
      dx == (SinMilli(y \div 50 + coin.wobbleOffset) * coin.wobbleAmount) \div 1000
  IN [coin EXCEPT !.y = y, !.x = coin.x + dx]

\* A ground test against the bottom of the canvas
PastCanvas(coin) == coin.y - COIN_RADIUS * PxScale > CANVAS_HEIGHT * PxScale

\* coin.y - COIN_RADIUS > GROUND_Y
PastGround(coin) == coin.y - COIN_RADIUS * PxScale > GROUND_Y * PxScale

Abs(a) == IF a < 0 THEN 0 - a ELSE a

\* distSq < hitRadius * hitRadius for the player's box and the coin's centre.
\* (A distance of hitRadius or more on one axis already decides the test; it
\* is decided first so that the squares stay within TLC's integers.)
Hits(player, coin) ==
  LET playerX == player.x * PxScale
      playerY == (GROUND_Y - PLAYER_HEIGHT) * PxScale
      closestX == Max(playerX, Min(coin.x, playerX + PLAYER_WIDTH * PxScale))
      closestY == Max(playerY, Min(coin.y, playerY + PLAYER_HEIGHT * PxScale))
      distX == coin.x - closestX
      distY == coin.y - closestY
      hitRadius == (COIN_RADIUS + COLLISION_FORGIVENESS) * PxScale
  IN /\ Abs(distX) < hitRadius
     /\ Abs(distY) < hitRadius
     /\ distX * distX + distY * distY < hitRadius * hitRadius

\* for (const [playerId, player] of this.players) { if (hit) { ...; break; } }
\* from the j-th entry on: the players with the catch credited, and the
\* CollectedEvents pushed for this coin.
RECURSIVE PlayerLoop(_, _, _)
PlayerLoop(ps, coin, j) ==
  IF j > Len(ps) THEN [players |-> ps, events |-> << >>]
  ELSE IF Hits(ps[j], coin)
    THEN [players |-> [ps EXCEPT ![j].score = @ + CatchScore],
          events |-> <<[playerId |-> ps[j].id, x |-> coin.x, y |-> coin.y]>>]
    ELSE PlayerLoop(ps, coin, j + 1)

\* for (let i = coins.length - 1; i >= 0; i--) { move; ground; collide }
\* r is [coins, players, collected, grounded, credits, moved]; the last three
\* are observations: the moved coins that left by the ground, the
\* (serial, player) pairs credited, and every coin after its move.
RECURSIVE CoinLoop(_, _, _)
CoinLoop(r, dt, i) ==
  IF i < 1 THEN r
  ELSE
    LET coin == MoveCoin(r.coins[i], dt)
        seen == [r EXCEPT !.moved = <<coin>> \o @]
    IN IF PastGround(coin)
         THEN CoinLoop([seen EXCEPT !.coins = Splice(@, i),
                                    !.grounded = Append(@, coin)], dt, i - 1)
         ELSE
           LET c == PlayerLoop(r.players, coin, 1)
               n == Len(c.events)
           IN IF n = 0
                THEN CoinLoop([seen EXCEPT !.coins[i] = coin], dt, i - 1)
                ELSE CoinLoop(
                       [seen EXCEPT
                          !.players = c.players,
                          !.collected = @ \o c.events,
                          !.credits = @ \o [k \in 1..n |->
                                             [serial |-> coin.serial,
                                              playerId |-> c.events[k].playerId]],
                          \* one splice(i, 1) per hit
                          !.coins = IF n = 1 THEN Splice(@, i)
                                    ELSE SubSeq(@, 1, i - 1)
                                           \o SubSeq(@, Min(i + n, Len(@) + 1), Len(@))],
                       dt, i - 1)

\* The serials of the objects a coin loop credited, and those among them
\* credited before in the round or more than once in the loop
CreditedSerials(r) == {r.credits[k].serial : k \in 1..Len(r.credits)}
CreditedAgain(w, r) ==
  {s \in CreditedSerials(r) :
     \/ s \in w.round.credited
     \/ Cardinality({k \in 1..Len(r.credits) : r.credits[k].serial = s}) > 1}

\* The room after the coin loop r of a step of dt that began in w and
\* spawned into w2, with the observation of the step
AfterCoinLoop(w, dt, w2, r) ==
  [w2 EXCEPT
     !.coins = r.coins,
     !.players = r.players,
     !.round.credited = @ \cup CreditedSerials(r),
     !.round.twice = @ \cup CreditedAgain(w, r),
     !.phys = [ran |-> TRUE, gap |-> dt, dt |-> dt,
               timeLeftBefore |-> w.timeLeft,
               timeLeftAfter |-> w2.timeLeft,
               accBefore |-> w.coinSpawnAccumulator,
               accAfter |-> w2.coinSpawnAccumulator,
               coinsBefore |-> Len(w.coins),
               spawned |-> Len(w2.coins) - Len(w.coins),
               playersBefore |-> w.players,
               moved |-> r.moved, grounded |-> r.grounded,
               credits |-> r.credits, collected |-> r.collected]]

\* The coin loop of a step of dt that began in w and spawned into w2
AfterSpawn(w, dt, w2) ==
  AfterCoinLoop(w, dt, w2,
                CoinLoop([coins |-> w2.coins, players |-> w2.players,
                          collected |-> << >>, grounded |-> << >>,
                          credits |-> << >>, moved |-> << >>], dt, Len(w2.coins)))

\* _advancePhysics(dt): returns the room after the step; the CollectedEvents
\* it returns are phys.collected.
AdvancePhysics(w, dt, draw) ==
  AfterSpawn(w, dt,
             SpawnLoop([w EXCEPT !.timeLeft = @ - dt, !.coinSpawnAccumulator = @ + dt],
                       draw))

\* A step that takes the whole gap
StepDtWhole(gap) == gap

\* Math.min((now - this.lastPhysicsTime) / 1000, MAX_PHYSICS_DT)
StepDt(gap) == Min(gap, MAX_PHYSICS_DT)

\* this.lastPhysicsTime = now; this._pendingCollected.push(...collected)
StampStep(t, gap, w1) ==
  [w1 EXCEPT !.lastPhysicsTime = t,
             !.pendingCollected = @ \o w1.phys.collected,
             !.phys.gap = gap]

\* The physics step both triggers run: dt from the wall clock, the step, the
\* new lastPhysicsTime, and the CollectedEvents pushed on pendingCollected.
TimedStep(w, draw) ==
  StampStep(w.now, w.now - w.lastPhysicsTime,
            AdvancePhysics(w, StepDt(w.now - w.lastPhysicsTime), draw))

\* --- Settlement ---
\* ranked.sort((a, b) => b.score - a.score): Array.prototype.sort is stable
RECURSIVE SortByScore(_)
SortByScore(s) ==
  IF Len(s) <= 1 THEN s
  ELSE LET rest == SortByScore(SubSeq(s, 1, Len(s) - 1))
           p == s[Len(s)]
           k == Cardinality({i \in 1..Len(rest) : rest[i].score >= p.score})
       IN SubSeq(rest, 1, k) \o <<p>> \o SubSeq(rest, k + 1, Len(rest))

\* A winner flag that goes to the first rank whatever its score
IsWinnerAnyScore(i, score) == i = 0

\* isWinner = (i === 0 && p.score > 0), i counted from 0
IsWinner(i, score) == i = 0 /\ score > 0

\* coinsEarned = coinsFromScore + bonus + participation
CoinsEarned(i, score) ==
  score + (IF IsWinner(i, score) THEN WinnerBonus ELSE 0) + ParticipationBonus

\* The ranking _endGame sends: each player's score, award and winner flag
Ranked(sorted) ==
  [i \in 1..Len(sorted) |->
     [playerId |-> sorted[i].id, score |-> sorted[i].score,
      userId |-> sorted[i].userId,
      coinsEarned |-> CoinsEarned(i - 1, sorted[i].score),
      isWinner |-> IsWinner(i - 1, sorted[i].score)]]

\* coinAwards: the entries of the players who carry a userId
CoinAwards(ranked) ==
  LET linked == SelectSeq(ranked, LAMBDA p : p.userId # NoUser)
  IN [i \in 1..Len(linked) |->
        [userId |-> linked[i].userId, coinsEarned |-> linked[i].coinsEarned,
         isWinner |-> linked[i].isWinner]]

\* _endGame() from the ranking on: the gameOver message to every joined
\* socket and once more to each waiting entry, the awardCoins batch, the alarm
Announce(w, ranked) ==
  LET w1 == BroadcastAll([w EXCEPT !.state = "GAME_OVER"], "gameOver", ranked)
      to == SelectSeq(IdSeq(w.waitingRoom), LAMBDA c : c \in w.sockets)
      w2 == [w1 EXCEPT !.sent = @ \o [i \in 1..Len(to) |-> Msg(to[i], "gameOver", ranked)],
                       !.awarded = IF Len(CoinAwards(ranked)) > 0
                                     THEN Append(@, CoinAwards(ranked)) ELSE @]
  IN SetAlarm(w2, GAME_OVER_DISPLAY_SECONDS * MsPerSecond)

\* _endGame()
EndGame(w) == Announce(w, Ranked(SortByScore(w.players)))

\* --- Handlers ---
(***************************************************************************)
(* A handler is an operator from the room at the event (clock already      *)
(* read, sent and phys cleared by Begin) to the room it leaves behind.     *)
(* A frame is [text, length, parses, type, xIsNaN, x, nameClean, linked]:  *)
(* whether it is a string, its length, whether JSON.parse accepts it, its  *)
(* type field, whether Number(data.x) is NaN and its value otherwise,      *)
(* whether the sanitized name passes isNameClean, and whether it carries a *)
(* valid userId.                                                           *)
(***************************************************************************)
MaxFrameLength == 512

Begin(w, t) == [w EXCEPT !.now = t, !.sent = << >>, !.phys = NoPhys]

\* Observation at the end of a handler: the lowest timeLeft left behind in
\* the open PLAYING period; the period is closed once the room has left PLAYING.
Finish(w) ==
  IF ~w.initialized \/ ~w.round.open THEN w
  ELSE IF w.state = "PLAYING" THEN [w EXCEPT !.round.low = Min(@, w.timeLeft)]
  ELSE [w EXCEPT !.round.open = FALSE]

\* A limit test that lets a 21st socket in
AcceptLate(w) ==
  LET id == w.nextPlayerId
  IN IF Cardinality(w.sockets) > MaxSockets THEN w
     ELSE PersistState(
            SendTo([w EXCEPT !.nextPlayerId = @ + 1,
                             !.sockets = @ \cup {id},
                             !.att = [c \in DOMAIN @ \cup {id} |->
                                        IF c = id THEN NewAttachment(id) ELSE @[c]]],
                   id, "welcome", id))

\* fetch(request) once initialized: the socket limit, the new socket with
\* its attachment, the welcome message, the snapshot
Accept(w) ==
  LET id == w.nextPlayerId
  IN IF Cardinality(w.sockets) >= MaxSockets THEN w
     ELSE PersistState(
            SendTo([w EXCEPT !.nextPlayerId = @ + 1,
                             !.sockets = @ \cup {id},
                             !.att = [c \in DOMAIN @ \cup {id} |->
                                        IF c = id THEN NewAttachment(id) ELSE @[c]]],
                   id, "welcome", id))

\* fetch(request)
Fetch(w0) == Accept(EnsureInitialized(w0))

\* Math.max(0, Math.min(CANVAS_WIDTH - PLAYER_WIDTH, x))
ClampX(x) == Max(0, Min(CANVAS_WIDTH - PLAYER_WIDTH, x))

SetPlayerX(ps, c, x) ==
  [i \in 1..Len(ps) |-> IF ps[i].id = c THEN [ps[i] EXCEPT !.x = ClampX(x)] ELSE ps[i]]

\* if (this.timeLeft <= 0) { this.timeLeft = 0; this._endGame(); ... }
TimeIsUp(tl) == tl <= 0

\* A game over that leaves timeLeft as the last step left it
ExpiredAsIs(w) == w

\* this.timeLeft = 0
Expired(w) == [w EXCEPT !.timeLeft = 0]

\* A broadcast that leaves lastBroadcastTime as it was
FlushGameStateUnstamped(w) ==
  [BroadcastGameState(w, w.pendingCollected) EXCEPT !.pendingCollected = << >>]

\* _broadcastGameState(this._pendingCollected); the queue emptied and
\* lastBroadcastTime set
FlushGameState(w) ==
  [BroadcastGameState(w, w.pendingCollected)
     EXCEPT !.pendingCollected = << >>, !.lastBroadcastTime = w.now]

\* The fast path after its physics step: game over, or the throttled broadcast
AfterHotStep(w1) ==
  IF TimeIsUp(w1.timeLeft) THEN PersistState(EndGame(Expired(w1)))
  ELSE IF w1.now - w1.lastBroadcastTime >= BROADCAST_THROTTLE_MS
    THEN FlushGameState(w1)
    ELSE w1

\* webSocketMessage: the fast path of a move during PLAYING (lines 218-253)
HotMove(w, c, data, draw) ==
  IF c \notin Ids(w.players) \/ data.xIsNaN THEN w
  ELSE AfterHotStep(TimedStep([w EXCEPT !.players = SetPlayerX(@, c, data.x)], draw))

\* A join that does not look for the sender in the rosters
JoinAgain(w, c, data) ==
  IF ~data.nameClean THEN SendTo(w, c, "nameRejected", 0)
  ELSE LET userId == IF data.linked THEN c ELSE NoUser
       IN PersistState(IF w.state = "LOBBY" THEN AddPlayerToLobby(w, c, userId)
                       ELSE AddToWaitingRoom(w, c, userId))

\* webSocketMessage: case 'join'
Join(w, c, data) ==
  IF c \in Ids(w.players) \/ c \in Ids(w.waitingRoom) THEN w
  ELSE IF ~data.nameClean THEN SendTo(w, c, "nameRejected", 0)
  ELSE LET userId == IF data.linked THEN c ELSE NoUser
       IN PersistState(IF w.state = "LOBBY" THEN AddPlayerToLobby(w, c, userId)
                       ELSE AddToWaitingRoom(w, c, userId))

\* A normal path that drops the move
ColdMoveLost(w, c, data) == w

\* webSocketMessage: case 'move' on the normal path
ColdMove(w, c, data) ==
  IF w.state = "PLAYING" /\ c \in Ids(w.players) /\ ~data.xIsNaN
    THEN [w EXCEPT !.players = SetPlayerX(@, c, data.x)]
    ELSE w

\* webSocketMessage: the switch on data.type of the normal path
Dispatch(w, c, data) ==
  IF data.type = "join" THEN Join(w, c, data)
  ELSE IF data.type = "move" THEN ColdMove(w, c, data)
  ELSE w

\* A handler that reads frames of any length
WebSocketMessageAnyLength(w, c, data, draw) ==
  IF ~data.text THEN w
  ELSE IF ~data.parses THEN w
  ELSE IF data.type = "move" /\ w.initialized /\ w.state = "PLAYING"
    THEN HotMove(w, c, data, draw)
  ELSE Dispatch(EnsureInitialized(w), c, data)

\* webSocketMessage(ws, message)
WebSocketMessage(w, c, data, draw) ==
  IF ~data.text \/ data.length > MaxFrameLength THEN w
  ELSE IF ~data.parses THEN w
  ELSE IF data.type = "move" /\ w.initialized /\ w.state = "PLAYING"
    THEN HotMove(w, c, data, draw)
  ELSE Dispatch(EnsureInitialized(w), c, data)

\* A close that returns to the lobby whoever is left
LeaveReturning(w1, c) ==
  LET w2 == [w1 EXCEPT !.players = MapDelete(@, c),
                       !.waitingRoom = MapDelete(@, c),
                       !.sockets = @ \ {c},
                       !.att = [d \in DOMAIN @ \ {c} |-> @[d]]]
      w3 == IF w2.state = "LOBBY" THEN BroadcastLobbyMsg(w2) ELSE w2
  IN PersistState(ReturnToLobby(w3))

\* A close that never returns to the lobby
LeaveStaying(w1, c) ==
  LET w2 == [w1 EXCEPT !.players = MapDelete(@, c),
                       !.waitingRoom = MapDelete(@, c),
                       !.sockets = @ \ {c},
                       !.att = [d \in DOMAIN @ \ {c} |-> @[d]]]
      w3 == IF w2.state = "LOBBY" THEN BroadcastLobbyMsg(w2) ELSE w2
  IN PersistState(w3)

\* webSocketClose(ws, code, reason) once initialized: the closed socket
\* leaves ctx.getWebSockets() and its attachment goes with it.
Leave(w1, c) ==
  LET w2 == [w1 EXCEPT !.players = MapDelete(@, c),
                       !.waitingRoom = MapDelete(@, c),
                       !.sockets = @ \ {c},
                       !.att = [d \in DOMAIN @ \ {c} |-> @[d]]]
      w3 == IF w2.state = "LOBBY" THEN BroadcastLobbyMsg(w2) ELSE w2
      w4 == IF Len(w3.players) = 0 /\ w3.state # "LOBBY" THEN ReturnToLobby(w3) ELSE w3
  IN PersistState(w4)

\* webSocketClose(ws, code, reason)
WebSocketClose(w0, c) == Leave(EnsureInitialized(w0), c)

\* A fallback tick that does not schedule the next one
AfterAlarmStepUnarmed(w1) ==
  IF TimeIsUp(w1.timeLeft) THEN PersistState(EndGame(Expired(w1)))
  ELSE SavePlayerAttachments(FlushGameState(w1))

\* alarm(), case 'PLAYING', after its physics step: game over, or the
\* broadcast, the attachments and the next fallback alarm
AfterAlarmStep(w1) ==
  IF TimeIsUp(w1.timeLeft) THEN PersistState(EndGame(Expired(w1)))
  ELSE SetAlarm(SavePlayerAttachments(FlushGameState(w1)), FALLBACK_ALARM_MS)

\* alarm(): case 'PLAYING'
AlarmPlaying(w, draw) ==
  IF Len(w.players) = 0 THEN PersistState(ReturnToLobby(w))
  ELSE AfterAlarmStep(TimedStep(w, draw))

\* alarm(): case 'COUNTDOWN', countdownSeconds already decremented
AlarmCountdown(w1) ==
  IF w1.countdownSeconds <= 0 THEN PersistState(StartPlaying(w1))
  ELSE PersistState(SetAlarm(
         BroadcastAll(w1, "countdown", w1.countdownSeconds), MsPerSecond))

\* A display alarm that settles the round once more
OnAlarmSettlingAgain(w, draw) ==
  CASE w.state = "LOBBY" ->
         IF Len(w.players) > 0 THEN PersistState(StartCountdown(w)) ELSE w
    [] w.state = "COUNTDOWN" -> AlarmCountdown([w EXCEPT !.countdownSeconds = @ - 1])
    [] w.state = "PLAYING" -> AlarmPlaying(w, draw)
    [] w.state = "GAME_OVER" -> PersistState(ReturnToLobby(EndGame(w)))

\* alarm(): the switch on this.state
OnAlarm(w, draw) ==
  CASE w.state = "LOBBY" ->
         IF Len(w.players) > 0 THEN PersistState(StartCountdown(w)) ELSE w
    [] w.state = "COUNTDOWN" -> AlarmCountdown([w EXCEPT !.countdownSeconds = @ - 1])
    [] w.state = "PLAYING" -> AlarmPlaying(w, draw)
    [] w.state = "GAME_OVER" -> PersistState(ReturnToLobby(w))

\* alarm(): the platform clears the alarm that fires
Alarm(w0, draw) == OnAlarm(EnsureInitialized([w0 EXCEPT !.alarm = NoAlarm]), draw)

\* The platform evicts the instance; the next event constructs a new one.
\* Storage, the alarm, the sockets and their attachments survive.
Evict(w) == [Constructed(w) EXCEPT !.sent = << >>, !.phys = NoPhys]

\* --- Inputs ---
Frame(type) ==
  [text |-> TRUE, length |-> 32, parses |-> TRUE, type |-> type, xIsNaN |-> FALSE,
   x |-> 0, nameClean |-> TRUE, linked |-> FALSE]
JoinFrame(clean, linked) ==
  [Frame("join") EXCEPT !.nameClean = clean, !.linked = linked]
MoveFrame(x) == [Frame("move") EXCEPT !.x = x]

\* One Math.random() outcome for _spawnCoin: x in [16, 944) px, speed in
\* [89, 160) px/s, wobbleOffset in [0, 2 pi), wobbleAmount in [0.3, 0.8) px
Draw(x, speed) ==
  [x |-> x * PxScale, speed |-> speed, wobbleOffset |-> 0, wobbleAmount |-> 500]

\* --- Events ---
\* The variables hold the room w
Is(w) ==
  /\ state = w.state
  /\ players = w.players
  /\ waitingRoom = w.waitingRoom
  /\ coins = w.coins
  /\ nextCoinId = w.nextCoinId
  /\ timeLeft = w.timeLeft
  /\ countdownSeconds = w.countdownSeconds
  /\ coinSpawnAccumulator = w.coinSpawnAccumulator
  /\ nextPlayerId = w.nextPlayerId
  /\ lastPhysicsTime = w.lastPhysicsTime
  /\ lastBroadcastTime = w.lastBroadcastTime
  /\ pendingCollected = w.pendingCollected
  /\ initialized = w.initialized
  /\ gs = w.gs
  /\ alarm = w.alarm
  /\ sockets = w.sockets
  /\ att = w.att
  /\ now = w.now
  /\ sent = w.sent
  /\ phys = w.phys
  /\ awarded = w.awarded
  /\ round = w.round
  /\ hist = w.hist
  /\ d1 = w.d1

\* A platform with nothing stored, no socket and no alarm, the clock at 0
EmptyPlatform ==
  [gs |-> NoGs, alarm |-> NoAlarm, sockets |-> {}, att |-> << >>, now |-> 0,
   sent |-> << >>, phys |-> NoPhys, awarded |-> << >>, round |-> NoRound,
   hist |-> NoHist, d1 |-> NoD1,
   state |-> "LOBBY", players |-> << >>, waitingRoom |-> << >>, coins |-> << >>,
   nextCoinId |-> 1, timeLeft |-> 0, countdownSeconds |-> 0,
   coinSpawnAccumulator |-> 0, nextPlayerId |-> 1, lastPhysicsTime |-> UnixEpoch,
   lastBroadcastTime |-> UnixEpoch, pendingCollected |-> << >>, initialized |-> FALSE]

\* The state after construction
Init == Is(Constructed(EmptyPlatform))

\* The origin of time moved to w.now (see the head of the module)
Rebase(w) ==
  LET Shift(ts) == IF ts = UnixEpoch THEN UnixEpoch ELSE Max(ts - w.now, 0 - Horizon)
  IN [w EXCEPT
        !.now = 0,
        !.alarm = IF @ = NoAlarm THEN NoAlarm ELSE Max(@ - w.now, 0),
        !.lastPhysicsTime = Shift(@),
        !.lastBroadcastTime = Shift(@),
        !.gs = IF @ = NoGs THEN @ ELSE [@ EXCEPT !.lastPhysicsTime = Shift(@)],
        !.round.start = Max(@ - w.now, 0 - ElapsedCap)]

\* Each event happens d >= 0 milliseconds after the one before it.
DoFetch(d) == Commit(Rebase(Finish(Fetch(Begin(Cur, now + d)))))

DoMessage(d, c, data, draw) ==
  /\ c \in sockets
  /\ Commit(Rebase(Finish(WebSocketMessage(Begin(Cur, now + d), c, data, draw))))

DoClose(d, c) ==
  /\ c \in sockets
  /\ Commit(Rebase(Finish(WebSocketClose(Begin(Cur, now + d), c))))

\* The alarm fires at its deadline.
DoAlarm(draw) ==
  /\ alarm # NoAlarm
  /\ Commit(Rebase(Finish(Alarm(Begin(Cur, Max(now, alarm)), draw))))

DoEvict ==
  /\ initialized
  /\ Commit(Evict(Cur))

\* --- The room's life: sockets connect, join, move and close, the alarm ---
\* --- fires at its deadline, the instance is evicted                     ---
MaxConns == 6
MaxCloses == 1
Draw0 == Draw(480, COIN_BASE_SPEED)

\* The connection ids handed out so far
Issued == IF gs = NoGs THEN 0 ELSE gs.nextPlayerId - 1

\* A round is being played: this specification lets only the alarm act on it.
MidRound == initialized /\ state = "PLAYING"

\* The sockets that have not joined, lowest id first
Unjoined == {c \in sockets : att[c].role = "new"}
NextToJoin == {c \in Unjoined : \A d \in Unjoined : c <= d}
XOf(c) == IF c \in Ids(players) THEN (CHOOSE p \in Range(players) : p.id = c).x ELSE StartX

Connect == ~MidRound /\ Issued < MaxConns /\ Unjoined = {} /\ DoFetch(0)
JoinNow == ~MidRound /\ \E c \in NextToJoin : DoMessage(0, c, JoinFrame(TRUE, FALSE), Draw0)
MoveNow == ~MidRound /\ \E c \in sockets : DoMessage(0, c, MoveFrame(XOf(c)), Draw0)
CloseNow ==
  /\ ~MidRound
  /\ Issued - Cardinality(sockets) < MaxCloses
  /\ \E c \in sockets : DoClose(0, c)
AlarmFires == DoAlarm(Draw0)
EvictNow == ~MidRound /\ DoEvict

Next == Connect \/ JoinNow \/ MoveNow \/ CloseNow \/ AlarmFires \/ EvictNow

Spec == Init /\ [][Next]_vars

\* The active roster a handler starts from: the in-memory map, rebuilt from
\* the sockets' attachments when the instance has just been constructed
ActiveRoster == EnsureInitialized(Cur).players

HasMsg(c, type) == \E i \in 1..Len(sent) : sent[i].to = c /\ sent[i].type = type

\* C1: in every reachable state the active roster holds between 0 and
\* MAX_PLAYERS (5) entries, in memory and as a restart rebuilds it; and a join
\* that arrives while 5 players are active leaves 5 active players, puts the
\* joining connection in the waiting room and sends it a 'waiting' message.
C1_RosterBound ==
  /\ [](Len(players) <= MAX_PLAYERS /\ Len(ActiveRoster) <= MAX_PLAYERS)
  /\ [][\A c \in sockets :
          (/\ Len(ActiveRoster) = MAX_PLAYERS
           /\ att[c].role = "new"
           /\ DoMessage(0, c, JoinFrame(TRUE, FALSE), Draw0))
          => /\ Len(players') = MAX_PLAYERS
             /\ c \notin Ids(players')
             /\ c \in Ids(waitingRoom')
             /\ \E i \in 1..Len(sent') : sent'[i] = Msg(c, "waiting", 0)]_vars

\* A join has just been answered 'waiting' by a LOBBY that holds 5 players
C1_SixthJoinWaits ==
  /\ state = "LOBBY"
  /\ Len(players) = MAX_PLAYERS
  /\ \E c \in Ids(waitingRoom) : HasMsg(c, "waiting")

\* Wall-clock time since the latest _startPlaying (at most ElapsedCap is kept)
Elapsed == now - round.start

\* --- One player who never moves: the alarm alone drives the room ---
SoloConnect == Issued = 0 /\ DoFetch(0)
SoloJoin == \E c \in NextToJoin : DoMessage(0, c, JoinFrame(TRUE, TRUE), Draw0)
SoloAlarm == DoAlarm(Draw0)

NextSolo == SoloConnect \/ SoloJoin \/ SoloAlarm

SpecSolo == Init /\ [][NextSolo]_vars

\* C2: with one joined player, no move, no join and no disconnect, the state
\* only ever changes LOBBY -> COUNTDOWN -> PLAYING -> GAME_OVER -> LOBBY, and
\* the room is out of PLAYING once GAME_DURATION (60) seconds of wall-clock
\* time have passed in it.
C2_SoloRoundLastsSixtySeconds ==
  /\ [][state' # state =>
          <<state, state'>> \in {<<"LOBBY", "COUNTDOWN">>, <<"COUNTDOWN", "PLAYING">>,
                                 <<"PLAYING", "GAME_OVER">>, <<"GAME_OVER", "LOBBY">>}]_vars
  /\ [](state = "PLAYING" => Elapsed < GAME_DURATION * MsPerSecond)

\* The sequence alone, which the room does follow
C2_SoloSequence ==
  [][state' # state =>
       <<state, state'>> \in {<<"LOBBY", "COUNTDOWN">>, <<"COUNTDOWN", "PLAYING">>,
                              <<"PLAYING", "GAME_OVER">>, <<"GAME_OVER", "LOBBY">>}]_vars

\* --- The opening of a round: players move at short intervals, sockets    ---
\* --- connect, join the waiting room and close, the alarm fires, the     ---
\* --- instance is evicted; the first PlayWindow milliseconds of a round    ---
PlayConns == 2
PlayCloses == 1
PlayWindow == 500
Delays == {0, BROADCAST_THROTTLE_MS, MAX_PHYSICS_DT}

\* The room is not in a round, or the round began less than PlayWindow ms ago
InWindow == (gs # NoGs /\ gs.state = "PLAYING") => Elapsed < PlayWindow

PlayConnect == InWindow /\ Issued < PlayConns /\ Unjoined = {} /\ DoFetch(0)
PlayJoin == InWindow /\ \E c \in NextToJoin : DoMessage(0, c, JoinFrame(TRUE, TRUE), Draw0)
PlayMove ==
  /\ InWindow
  /\ gs # NoGs
  /\ gs.state = "PLAYING"
  /\ \E c \in sockets, d \in Delays :
       /\ alarm # NoAlarm => d <= alarm - now
       /\ DoMessage(d, c, MoveFrame(XOf(c)), Draw0)
PlayClose ==
  /\ InWindow
  /\ Issued - Cardinality(sockets) < PlayCloses
  /\ \E c \in sockets : DoClose(0, c)
PlayAlarm == InWindow /\ DoAlarm(Draw0)
PlayEvict == InWindow /\ DoEvict

NextPlay == PlayConnect \/ PlayJoin \/ PlayMove \/ PlayClose \/ PlayAlarm \/ PlayEvict

SpecPlay == Init /\ [][NextPlay]_vars

\* C3: the game time a round has consumed depends on the wall-clock time
\* elapsed alone, whichever trigger ran the steps.  A round stepped by moves
\* at most MAX_PHYSICS_DT apart consumes exactly the elapsed time, so the
\* same must hold after every step of every round: the decrease of timeLeft
\* (the time applied to the falling objects) equals the time elapsed since
\* _startPlaying.
C3_GameTimeFollowsWallClock ==
  (phys.ran /\ round.open /\ state = "PLAYING")
    => GAME_DURATION * MsPerSecond - timeLeft = Elapsed

\* C5: within one PLAYING period the timeLeft a handler leaves behind is
\* never above one left behind earlier in the period, across moves, alarms,
\* joins to the waiting room, disconnects and restarts.
C5_TimeLeftNeverIncreases ==
  [][(round.open /\ round'.open /\ initialized' /\ state' = "PLAYING")
       => timeLeft' <= round.low]_vars

\* --- Single steps of a round in progress: two players, objects close to  ---
\* --- them and to the ground, moves after short and long silences, the    ---
\* --- alarm (which the platform may deliver late), evictions              ---
StepWindow == 500
MidTime == 30000
LateTime == 150
StepDelays == {2 * BROADCAST_THROTTLE_MS, MAX_PHYSICS_DT, Horizon}
StepXs == {100, 450}
SpotX == 480

\* An object over SpotX at height y (px), falling at 100 px/s
CoinAt(n, y) ==
  [id |-> n, serial |-> n, x |-> SpotX * PxScale, y |-> y * PxScale, speed |-> 100,
   wobbleOffset |-> 0, wobbleAmount |-> 500]

\* A round in progress as a handler that stores the snapshot leaves it: the
\* players joined in the given order and stand at x = 100, a first object is
\* just above the players' reach and a second one just above the ground,
\* tl ms are left, the spawn accumulator holds acc ms and the fallback alarm
\* is due in `due` ms (a move has just run the physics).
StepStart(order, tl, acc, due) ==
  PersistState(
    [EmptyPlatform EXCEPT
       !.initialized = TRUE, !.state = "PLAYING",
       !.players = [i \in 1..Len(order) |->
                      [id |-> order[i], x |-> 100, score |-> 0,
                       color |-> PLAYER_COLORS[i], userId |-> order[i]]],
       !.coins = <<CoinAt(1, 390), CoinAt(2, 510)>>,
       !.nextCoinId = 3, !.timeLeft = tl, !.coinSpawnAccumulator = acc,
       !.nextPlayerId = Len(order) + 1, !.lastPhysicsTime = 0,
       !.lastBroadcastTime = 0, !.alarm = due,
       !.sockets = Range(order),
       !.att = [c \in Range(order) |-> NewAttachment(c)],
       !.round = [open |-> TRUE,
                  start |-> 0 - Min(GAME_DURATION * MsPerSecond - tl, ElapsedCap),
                  low |-> tl, serial |-> 3, credited |-> {}, twice |-> {}]])

InitStep ==
  \E order \in {<<1, 2>>, <<2, 1>>}, tl \in {MidTime, LateTime},
     acc \in {0, COIN_SPAWN_INTERVAL - BROADCAST_THROTTLE_MS},
     due \in {2 * BROADCAST_THROTTLE_MS, FALLBACK_ALARM_MS} :
    Is(StepStart(order, tl, acc, due))

\* The round is on and less than StepWindow ms have passed since StepStart
SinceStart(tl) == Elapsed - (GAME_DURATION * MsPerSecond - tl)
InStep ==
  /\ gs.state = "PLAYING"
  /\ initialized => state = "PLAYING"
  /\ \/ SinceStart(MidTime) \in 0..(StepWindow - 1)
     \/ SinceStart(LateTime) \in 0..(StepWindow - 1)

StepMove ==
  /\ InStep
  /\ \E c \in sockets, d \in StepDelays, x \in StepXs :
       DoMessage(d, c, MoveFrame(x), Draw0)
StepAlarm == InStep /\ DoAlarm(Draw0)
StepEvict == InStep /\ DoEvict

NextStep == StepMove \/ StepAlarm \/ StepEvict

SpecStep == InitStep /\ [][NextStep]_vars

\* C4: after every handler that ran a physics step, timeLeft is at most what
\* it was when the step began, and it is not negative.
C4_TimeLeftStepsDown ==
  phys.ran => (timeLeft <= phys.timeLeftBefore /\ timeLeft >= 0)

\* A step took timeLeft below zero and the handler left it at 0
C4_ClampedAtZero ==
  phys.ran /\ phys.timeLeftAfter < 0 /\ timeLeft = 0 /\ state = "GAME_OVER"

\* What a step of exactly MAX_PHYSICS_DT spawns from an accumulator acc with
\* n objects in flight
SpawnsOfFullStep(acc, n) ==
  IF AtCoinCap(n) THEN 0 ELSE (acc + MAX_PHYSICS_DT) \div COIN_SPAWN_INTERVAL

\* C6: a step after a wall-clock gap of MAX_PHYSICS_DT (0.2 s) or more, 10 s
\* included, takes MAX_PHYSICS_DT off timeLeft, adds MAX_PHYSICS_DT to the
\* spawn accumulator (one COIN_SPAWN_INTERVAL taken back per spawn turn) and
\* spawns what a step after exactly MAX_PHYSICS_DT spawns.
C6_LongGapIsOneFullStep ==
  (phys.ran /\ phys.gap >= MAX_PHYSICS_DT)
    => /\ phys.dt = MAX_PHYSICS_DT
       /\ phys.timeLeftBefore - phys.timeLeftAfter = MAX_PHYSICS_DT
       /\ phys.accAfter = (phys.accBefore + MAX_PHYSICS_DT) % COIN_SPAWN_INTERVAL
       /\ phys.spawned = SpawnsOfFullStep(phys.accBefore, phys.coinsBefore)

\* A step ran after a gap of 10 s and spawned an object
C6_TenSecondGap ==
  phys.ran /\ phys.gap = Horizon /\ phys.spawned = 1 /\ phys.dt = MAX_PHYSICS_DT

\* The score a player had when the last step began
ScoreBefore(id) ==
  (CHOOSE p \in Range(phys.playersBefore) : p.id = id).score
\* The credits of the last step that went to a player
CreditsTo(id) == {k \in 1..Len(phys.credits) : phys.credits[k].playerId = id}
\* The first player of the roster, as the step found it, that the object hits
FirstHitting(coin) ==
  LET ps == [i \in 1..Len(phys.playersBefore) |->
               [phys.playersBefore[i] EXCEPT
                  !.x = (CHOOSE p \in Range(players) : p.id = phys.playersBefore[i].id).x]]
      hit == {i \in 1..Len(ps) : Hits(ps[i], coin)}
  IN IF hit = {} THEN NoUser
     ELSE ps[CHOOSE i \in hit : \A j \in hit : i <= j].id

\* Within the last step: every object in hit range of a player and above the
\* ground was credited once, to the first such player in roster order, with
\* one CollectedEvent, and left the room; every score rose by CatchScore per
\* credit and by nothing else.
CreditsOfStep ==
  phys.ran =>
    /\ \A i \in 1..Len(phys.moved) :
         LET coin == phys.moved[i]
             who == FirstHitting(coin)
             ks == {k \in 1..Len(phys.credits) : phys.credits[k].serial = coin.serial}
         IN IF PastGround(coin) \/ who = NoUser THEN ks = {}
            ELSE /\ Cardinality(ks) = 1
                 /\ \A k \in ks : phys.credits[k].playerId = who
                 /\ \A j \in 1..Len(coins) : coins[j].serial # coin.serial
    /\ Len(phys.collected) = Len(phys.credits)
    /\ \A k \in 1..Len(phys.credits) : phys.collected[k].playerId = phys.credits[k].playerId
    /\ \A i \in 1..Len(players) :
         players[i].score
           = ScoreBefore(players[i].id) + CatchScore * Cardinality(CreditsTo(players[i].id))

\* No score counts an object more than once: a score is at most CatchScore
\* per object credited in the round
ScoresCountObjectsOnce ==
  initialized
    => \A i \in 1..Len(players) :
         players[i].score <= CatchScore * Cardinality(round.credited)

\* C8: each object that collides in a step is credited to exactly one player,
\* the first matching one in roster order: CatchScore (10) more for that
\* player, one CollectedEvent, the object removed; and no object of the
\* round is ever credited twice, in that step or a later one.
C8_OneCreditPerObject == CreditsOfStep /\ round.twice = {}

CapWindow == 1000
CapSlack == 2

\* A round in progress with n objects falling side by side out of any
\* player's reach, acc ms in the spawn accumulator
CapStart(n, acc) ==
  PersistState(
    [EmptyPlatform EXCEPT
       !.initialized = TRUE, !.state = "PLAYING",
       !.players = <<[id |-> 1, x |-> 100, score |-> 0,
                      color |-> PLAYER_COLORS[1], userId |-> 1]>>,
       !.coins = [i \in 1..n |-> CoinAt(i, 0)],
       !.nextCoinId = n + 1, !.timeLeft = MidTime, !.coinSpawnAccumulator = acc,
       !.nextPlayerId = 2, !.lastPhysicsTime = 0, !.lastBroadcastTime = 0,
       !.alarm = FALLBACK_ALARM_MS, !.sockets = {1},
       !.att = [c \in {1} |-> NewAttachment(c)],
       !.round = [open |-> TRUE,
                  start |-> 0 - (GAME_DURATION * MsPerSecond - MidTime),
                  low |-> MidTime, serial |-> n + 1, credited |-> {},
                  twice |-> {}]])

InitCap ==
  \E n \in {0} \cup ((MaxCoins - CapSlack)..MaxCoins),
     acc \in {0, COIN_SPAWN_INTERVAL - MAX_PHYSICS_DT,
              COIN_SPAWN_INTERVAL - BROADCAST_THROTTLE_MS} :
    Is(CapStart(n, acc))

InCap ==
  /\ state = "PLAYING"
  /\ SinceStart(MidTime) \in 0..(CapWindow - 1)

CapMove ==
  /\ InCap
  /\ \E d \in {BROADCAST_THROTTLE_MS, MAX_PHYSICS_DT} :
       /\ d <= alarm
       /\ DoMessage(d, 1, MoveFrame(100), Draw0)
CapAlarm == InCap /\ DoAlarm(Draw0)

NextCap == CapMove \/ CapAlarm

SpecCap == InitCap /\ [][NextCap]_vars

\* C7: the room never holds more than MaxCoins (50) objects; a step whose
\* accumulator reaches the spawn interval while MaxCoins objects exist spawns
\* nothing, hands out no id, and leaves nothing of the missed spawn in the
\* accumulator: the interval is taken off as for a spawn.
C7_CoinCap ==
  /\ Len(coins) <= MaxCoins
  /\ phys.ran =>
       LET due == phys.accBefore + phys.dt >= COIN_SPAWN_INTERVAL
       IN /\ phys.spawned = IF due /\ phys.coinsBefore < MaxCoins THEN 1 ELSE 0
          /\ phys.accAfter = (phys.accBefore + phys.dt) % COIN_SPAWN_INTERVAL
          /\ (due /\ phys.coinsBefore = MaxCoins)
               => /\ Len(phys.moved) = MaxCoins
                  /\ \A i \in 1..Len(phys.moved) : phys.moved[i].serial <= MaxCoins

\* A spawn fell due with MaxCoins objects in the room and created nothing
C7_SpawnAtCap ==
  /\ phys.ran
  /\ phys.coinsBefore = MaxCoins
  /\ phys.accBefore + phys.dt >= COIN_SPAWN_INTERVAL
  /\ phys.spawned = 0
  /\ Len(coins) = MaxCoins

\* --- The end of a round: up to MaxRanked players with their final scores, ---
\* --- a step that runs out the clock, the return to the lobby             ---
MaxRanked == 3
FinalScores == {0, CatchScore, 3 * CatchScore}

\* The last instants of a round whose players, in roster order, hold `scores`
SettleStart(scores) ==
  PersistState(
    [EmptyPlatform EXCEPT
       !.initialized = TRUE, !.state = "PLAYING",
       !.players = [i \in 1..Len(scores) |->
                      [id |-> i, x |-> 100, score |-> scores[i],
                       color |-> PLAYER_COLORS[i], userId |-> i]],
       !.nextCoinId = 1, !.timeLeft = LateTime,
       !.nextPlayerId = Len(scores) + 1, !.lastPhysicsTime = 0,
       !.lastBroadcastTime = 0, !.alarm = FALLBACK_ALARM_MS,
       !.sockets = 1..Len(scores),
       !.att = [c \in 1..Len(scores) |-> NewAttachment(c)],
       !.round = [open |-> TRUE,
                  start |-> 0 - (GAME_DURATION * MsPerSecond - LateTime),
                  low |-> LateTime, serial |-> 1, credited |-> {}, twice |-> {}]])

InitSettle ==
  \E n \in 1..MaxRanked : \E scores \in [1..n -> FinalScores] :
    Is(SettleStart(scores))

SettleMove ==
  /\ state = "PLAYING"
  /\ \E c \in sockets, d \in {BROADCAST_THROTTLE_MS, MAX_PHYSICS_DT} :
       DoMessage(d, c, MoveFrame(100), Draw0)
SettleAlarm == state \in {"PLAYING", "GAME_OVER"} /\ DoAlarm(Draw0)

NextSettle == SettleMove \/ SettleAlarm

SpecSettle == InitSettle /\ [][NextSettle]_vars

\* The ranking carried by the gameOver messages of the last handler
GameOverLists == {sent[k].body : k \in {j \in 1..Len(sent) : sent[j].type = "gameOver"}}
Scores(list) == [i \in 1..Len(list) |-> list[i].score]
Awards(list) == [i \in 1..Len(list) |-> list[i].coinsEarned]

\* C10: at PLAYING -> GAME_OVER the players are ranked by score, highest
\* first, and the player at rank i is awarded score + ParticipationBonus (25),
\* plus WinnerBonus (50) only at i = 0 with a score above 0: scores
\* [30, 10, 0] are awarded [105, 35, 25], and with every score 0 nobody has
\* the winner bonus.  The awardCoins batch carries the same amounts.
C10_Awards ==
  \A list \in GameOverLists :
    /\ Len(list) = Len(players)
    /\ \A i \in 1..Len(list) :
         /\ \E j \in 1..Len(players) :
              players[j].id = list[i].playerId /\ players[j].score = list[i].score
         /\ i > 1 => list[i - 1].score >= list[i].score
         /\ list[i].coinsEarned
              = list[i].score + ParticipationBonus
                  + (IF i = 1 /\ list[i].score > 0 THEN WinnerBonus ELSE 0)
    /\ Scores(list) = <<30, 10, 0>> => Awards(list) = <<105, 35, 25>>
    /\ (\A i \in 1..Len(list) : list[i].score = 0)
         => \A i \in 1..Len(list) : list[i].coinsEarned = ParticipationBonus
    /\ Len(awarded) = 1
    /\ Len(awarded[1]) = Len(list)
    /\ \A i \in 1..Len(list) : awarded[1][i].coinsEarned = list[i].coinsEarned

\* A round has just ended with the scores [30, 10, 0] and the awards [105, 35, 25]
C10_ThirtyTenZero ==
  \E list \in GameOverLists :
    Scores(list) = <<30, 10, 0>> /\ Awards(list) = <<105, 35, 25>>

\* --- Restarts in the middle of a round (SpecStep) ---
\* The room the next handler works on: the instance as it is, or as
\* _ensureInitialized restores it when it has just been constructed
Found == EnsureInitialized(Cur)

\* The room a restart at this point would restore
Restarted == EnsureInitialized(Evict(Cur))

PlayerOf(ps, c) == CHOOSE p \in Range(ps) : p.id = c

\* The maps of r hold the same connections in the same roles as the maps in
\* memory, and each active player has the same score and position
SameRosters(r) ==
  /\ Ids(r.players) = Ids(players)
  /\ Ids(r.waitingRoom) = Ids(waitingRoom)
  /\ \A c \in Ids(players) :
       /\ PlayerOf(r.players, c).score = PlayerOf(players, c).score
       /\ PlayerOf(r.players, c).x = PlayerOf(players, c).x

\* C11: at any point of an execution, a restart (new instance, snapshot
\* reloaded, rosters rebuilt from the live connections' attachments) gives
\* the active and waiting maps the instance held before it: the same ids in
\* the same roles, the same score and position for each active player.
C11_RestartKeepsRosters == initialized => SameRosters(Restarted)

\* C12: after every handler the attachment of each joined connection is its
\* in-memory record: role, position, score and color (every operation that
\* changes a Player or WaitingEntry re-attaches it before the handler ends).
C12_AttachmentsCurrent ==
  initialized =>
    /\ \A i \in 1..Len(players) :
         /\ players[i].id \in DOMAIN att
         /\ att[players[i].id] = PlayerAttachment(players[i])
    /\ \A i \in 1..Len(waitingRoom) :
         /\ waitingRoom[i].id \in DOMAIN att
         /\ att[waitingRoom[i].id] = WaitingAttachment(waitingRoom[i])

\* Outside PLAYING the attachments are current
AttachmentsCurrentOutsidePlay == state # "PLAYING" => C12_AttachmentsCurrent

\* The CollectedEvents pending before a handler are still pending after it
StillPending ==
  /\ Len(pendingCollected') >= Len(pendingCollected)
  /\ SubSeq(pendingCollected', 1, Len(pendingCollected)) = pendingCollected
\* or the handler sent them in the 'collected' field of a gameState
DeliveredNow ==
  \E i \in 1..Len(sent') :
    /\ sent'[i].type = "gameState"
    /\ Len(sent'[i].body.collected) >= Len(pendingCollected)
    /\ SubSeq(sent'[i].body.collected, 1, Len(pendingCollected)) = pendingCollected

\* C14: no catch notification is dropped or kept back for more than a
\* throttle interval: the CollectedEvents a handler leaves pending are those
\* of a round still being played, with a broadcast due within
\* BROADCAST_THROTTLE_MS (50 ms) whether or not another move arrives; and the
\* events pending before a handler are sent by it or still pending after it.
C14_NoCatchNotificationDropped ==
  /\ [](pendingCollected # << >>
          => /\ state = "PLAYING"
             /\ alarm # NoAlarm
             /\ alarm - now <= BROADCAST_THROTTLE_MS)
  /\ [][pendingCollected # << >> => (StillPending \/ DeliveredNow)]_vars

\* A move arrives for an active player while the room's state, in memory or
\* as a restart restores it, is PLAYING
MoveInPlay(c) == Found.state = "PLAYING" /\ c \in Ids(Found.players)

\* The wall-clock time between the last physics step and a move d ms from now
GapAt(d) == (now + d) - lastPhysicsTime

\* C15: every accepted move (numeric x, sender an active player) that
\* arrives while the state is PLAYING runs one physics step sized to the
\* wall-clock time since the last step (at most MAX_PHYSICS_DT of it), the
\* first move a freshly restarted instance handles included.
C15_EveryMoveSteps ==
  [][\A c \in sockets, d \in StepDelays, x \in StepXs :
       (MoveInPlay(c) /\ DoMessage(d, c, MoveFrame(x), Draw0))
         => /\ phys'.ran
            /\ phys'.gap = GapAt(d)
            /\ phys'.dt = Min(GapAt(d), MAX_PHYSICS_DT)]_vars

\* What holds: an instance that is initialized runs that step; a freshly
\* constructed one restores its state, sets the sender's position and runs
\* no step, sends nothing and stores nothing.
C15_InitializedMoveSteps ==
  [][\A c \in sockets, d \in StepDelays, x \in StepXs :
       (MoveInPlay(c) /\ DoMessage(d, c, MoveFrame(x), Draw0))
         => IF initialized
              THEN /\ phys'.ran
                   /\ phys'.gap = GapAt(d)
                   /\ phys'.dt = Min(GapAt(d), MAX_PHYSICS_DT)
                   /\ PlayerOf(phys'.playersBefore, c).x = ClampX(x)
              ELSE /\ ~phys'.ran
                   /\ PlayerOf(players', c).x = ClampX(x)
                   /\ timeLeft' = Found.timeLeft
                   /\ coins' = Found.coins
                   /\ sent' = << >>
                   /\ gs'.timeLeft = gs.timeLeft /\ gs'.coins = gs.coins
                   /\ att' = att]_vars

\* A freshly restarted instance has just handled a move: the position is
\* set in memory only and no step ran
C15_ColdMoveAfterRestart ==
  /\ initialized
  /\ state = "PLAYING"
  /\ ~phys.ran
  /\ \E i \in 1..Len(players) : players[i].x # att[players[i].id].x

\* --- A burst of moves: BurstMoves moves within BurstSpan ms of a round ---
\* --- in progress, an object about to come within a player's reach      ---
BurstMoves == 20
BurstSpan == 100
BurstDelays == {0, BROADCAST_THROTTLE_MS \div 5, BROADCAST_THROTTLE_MS}
BurstX == 450

\* A round in progress, the last gameState broadcast `age` ms ago, an object
\* 26 px above the reach of a player standing under SpotX
BurstStart(age) ==
  [StepStart(<<1, 2>>, MidTime, 0, FALLBACK_ALARM_MS)
     EXCEPT !.coins = <<CoinAt(1, 400)>>, !.nextCoinId = 2, !.round.serial = 2,
            !.lastBroadcastTime = 0 - age]

InitBurst == \E age \in {0, BROADCAST_THROTTLE_MS} : Is(PersistState(BurstStart(age)))

\* The gameState messages a handler sent to connection c
GameStatesTo(w, c) ==
  Cardinality({i \in 1..Len(w.sent) : w.sent[i].to = c /\ w.sent[i].type = "gameState"})

\* Observation: one more move of the burst, and the gameState it sent to c
CountMove(w, c) ==
  [w EXCEPT !.hist.moves = @ + 1, !.hist.sends = @ + GameStatesTo(w, c)]

BurstMove ==
  /\ hist.moves < BurstMoves
  /\ \E c \in sockets, d \in BurstDelays :
       /\ SinceStart(MidTime) + d <= BurstSpan
       /\ Commit(Rebase(CountMove(
            Finish(WebSocketMessage(Begin(Cur, now + d), c, MoveFrame(BurstX), Draw0)),
            c)))

NextBurst == BurstMove

SpecBurst == InitBurst /\ [][NextBurst]_vars

\* The CollectedEvents of the steps since the last payload are in the next
\* payload: a move that sends a gameState sends the pending events and those
\* of its own step and leaves none pending; a move that sends none adds the
\* events of its step to the pending ones.
CollectedCarried ==
  phys'.ran =>
    IF sent' # << >>
      THEN /\ \A i \in 1..Len(sent') :
                /\ sent'[i].type = "gameState"
                /\ sent'[i].body.collected = pendingCollected \o phys'.collected
           /\ pendingCollected' = << >>
      ELSE pendingCollected' = pendingCollected \o phys'.collected

\* C13: 20 moves within 100 ms while PLAYING produce at most
\* ceil(100 / 50) = 2 gameState sends per connection, and every
\* CollectedEvent of the steps in between is in the 'collected' field of the
\* next payload sent.
C13_TwoSendsPerBurst ==
  /\ [](hist.sends <= (BurstSpan + BROADCAST_THROTTLE_MS - 1) \div BROADCAST_THROTTLE_MS)
  /\ [][CollectedCarried]_vars

\* What holds: moves that send are at least BROADCAST_THROTTLE_MS apart, so
\* a burst that spans BurstSpan ms sends at most BurstSpan / 50 + 1 = 3
\* times (at 0, 50 and 100 ms); the events are carried as the claim says.
C13_ThrottledBurst ==
  /\ [](hist.sends <= BurstSpan \div BROADCAST_THROTTLE_MS + 1)
  /\ [][CollectedCarried]_vars

\* The last move of a full burst is its third send and carries an event that
\* an earlier, throttled move of the burst produced
C13_ThirdSendCarriesEvent ==
  /\ hist.moves = BurstMoves
  /\ hist.sends = 3
  /\ phys.ran /\ phys.collected = << >>
  /\ \E i \in 1..Len(sent) :
       sent[i].type = "gameState" /\ sent[i].body.collected # << >>

\* --- Admission (Spec) ---
\* C16: a join accepted (clean name, connection not joined yet) while the
\* state is LOBBY with fewer than MAX_PLAYERS active players makes the
\* connection an active player at once; a join accepted while the roster is
\* full or the state is COUNTDOWN, PLAYING or GAME_OVER makes it a waiting
\* entry, leaves the active roster as it was and sends it a 'waiting' notice.
C16_Admission ==
  [][\A c \in sockets, linked \in BOOLEAN :
       (att[c].role = "new" /\ DoMessage(0, c, JoinFrame(TRUE, linked), Draw0))
         => IF Found.state = "LOBBY" /\ Len(Found.players) < MAX_PLAYERS
              THEN /\ Ids(players') = Ids(Found.players) \cup {c}
                   /\ c \notin Ids(waitingRoom')
                   /\ waitingRoom' = Found.waitingRoom
                   /\ att'[c].role = "player"
              ELSE /\ players' = Found.players
                   /\ Ids(waitingRoom') = Ids(Found.waitingRoom) \cup {c}
                   /\ att'[c].role = "waiting"
                   /\ \E i \in 1..Len(sent') : sent'[i] = Msg(c, "waiting", 0)]_vars

\* A join during COUNTDOWN has just been answered 'waiting'
C16_JoinDuringCountdown ==
  /\ state = "COUNTDOWN"
  /\ \E c \in Ids(waitingRoom) : HasMsg(c, "waiting") /\ c \notin Ids(players)

\* C17: whenever the active roster reaches MAX_PLAYERS (5) while the room is
\* in LOBBY, the room enters COUNTDOWN at once: no handler ends with state
\* LOBBY and 5 active players, whether the 5th came by a join or by promotion.
C17_FullLobbyCountsDown ==
  initialized => ~(state = "LOBBY" /\ Len(players) = MAX_PLAYERS)

\* What holds: a handler ends in a LOBBY with 5 active players only by
\* returning to the lobby (or by finding the lobby full already), with the
\* idle timer pending; a join that brings a LOBBY roster to 5 ends in COUNTDOWN.
C17_JoinFillsLobby ==
  [][(initialized' /\ state' = "LOBBY" /\ Len(players') = MAX_PLAYERS)
       => /\ Found.state # "LOBBY" \/ Len(Found.players) = MAX_PLAYERS
          /\ alarm' # NoAlarm]_vars

\* The GAME_OVER alarm has just returned five players to the lobby
C17_FullLobbyAfterRound ==
  /\ initialized
  /\ state = "LOBBY"
  /\ Len(players) = MAX_PLAYERS
  /\ timeLeft = 0
  /\ \E c \in Ids(players) : HasMsg(c, "lobby")

\* --- Leaving a round: a room in COUNTDOWN, PLAYING or GAME_OVER with     ---
\* --- connections waiting; sockets join, close or die, the alarm fires,  ---
\* --- the instance is evicted; until the room is back in LOBBY           ---
QueueWaiters == 2
QueueLeaves == 2
QueueWindow == 2000
QueueRosters == {1, MAX_PLAYERS - 1}

\* A round with np active players (connections 1..np), the connections of
\* `order` waiting, joined in that order, and one more connection that has
\* not joined; the snapshot stored
QueueStart(st, np, order) ==
  LET all == 1..(np + Len(order) + 1)
  IN PersistState(
       [EmptyPlatform EXCEPT
          !.initialized = TRUE, !.state = st,
          !.players = [i \in 1..np |->
                         [id |-> i, x |-> StartX, score |-> 0,
                          color |-> PLAYER_COLORS[i], userId |-> i]],
          !.waitingRoom = [i \in 1..Len(order) |->
                             [id |-> order[i],
                              color |-> PLAYER_COLORS[((i - 1) % Len(PLAYER_COLORS)) + 1],
                              userId |-> order[i]]],
          !.timeLeft = IF st = "GAME_OVER" THEN 0 ELSE MidTime,
          !.countdownSeconds = IF st = "COUNTDOWN" THEN 1 ELSE 0,
          !.nextPlayerId = np + Len(order) + 2,
          !.lastPhysicsTime = 0, !.lastBroadcastTime = 0,
          !.alarm = IF st = "GAME_OVER" THEN GAME_OVER_DISPLAY_SECONDS * MsPerSecond
                    ELSE FALLBACK_ALARM_MS,
          !.sockets = all,
          !.att = [c \in all |-> NewAttachment(c)],
          !.round = IF st = "PLAYING"
                      THEN [open |-> TRUE,
                            start |-> 0 - (GAME_DURATION * MsPerSecond - MidTime),
                            low |-> MidTime, serial |-> 1, credited |-> {},
                            twice |-> {}]
                      ELSE NoRound,
          !.hist = [NoHist EXCEPT !.queue = order, !.from = st]])

\* The orders in which the connections first..(first + QueueWaiters - 1) can
\* have joined
JoinOrders(first) ==
  {order \in [1..QueueWaiters -> first..(first + QueueWaiters - 1)] :
     \A i, j \in 1..QueueWaiters : i # j => order[i] # order[j]}

InitQueue ==
  \E st \in {"COUNTDOWN", "PLAYING", "GAME_OVER"}, np \in QueueRosters :
    \E order \in JoinOrders(np + 1) : Is(QueueStart(st, np, order))

\* Observation at the end of a handler that found the room `found`: the
\* waiting connections in join order, the connections it moved from the
\* waiting room to the active roster, the state it found
TrackQueue(found, w) ==
  IF ~w.initialized THEN w
  ELSE [w EXCEPT
          !.hist.queue =
             SelectSeq(@, LAMBDA c : c \in Ids(w.waitingRoom))
               \o SelectSeq(IdSeq(w.waitingRoom), LAMBDA c : c \notin Range(w.hist.queue)),
          !.hist.promoted = Ids(found.waitingRoom) \cap Ids(w.players),
          !.hist.from = found.state]

\* The connection dies: it leaves ctx.getWebSockets() and every send to it
\* throws; webSocketClose has not run yet
Drop(w, c) == [w EXCEPT !.sockets = @ \ {c}, !.sent = << >>, !.phys = NoPhys]

\* The room has not returned to the lobby, and a round being played is in
\* its first QueueWindow ms (from its start, or from QueueStart)
QueueOn ==
  /\ gs.state # "LOBBY"
  /\ initialized => state # "LOBBY"
  /\ (initialized /\ state = "PLAYING")
       => \/ Elapsed < QueueWindow
          \/ SinceStart(MidTime) \in 0..(QueueWindow - 1)

\* The sockets that have left: closed or dead
Left == Issued - Cardinality(sockets)

QueueJoin ==
  /\ QueueOn
  /\ \E c \in NextToJoin :
       Commit(Rebase(TrackQueue(Found,
         Finish(WebSocketMessage(Begin(Cur, now), c, JoinFrame(TRUE, TRUE), Draw0)))))

\* webSocketClose for connection c, open or dead
QueueCloseOf(c) ==
  Commit(Rebase(TrackQueue(Found, Finish(WebSocketClose(Begin(Cur, now), c)))))

QueueClose ==
  /\ QueueOn
  /\ \E c \in DOMAIN att :
       /\ c \in sockets => Left < QueueLeaves
       /\ QueueCloseOf(c)

QueueDrop ==
  /\ QueueOn
  /\ Left < QueueLeaves
  /\ \E c \in sockets : Commit(Drop(Cur, c))

QueueAlarm ==
  /\ QueueOn
  /\ alarm # NoAlarm
  /\ Commit(Rebase(TrackQueue(Found, Finish(Alarm(Begin(Cur, Max(now, alarm)), Draw0)))))

QueueEvict == QueueOn /\ DoEvict

NextQueue == QueueJoin \/ QueueClose \/ QueueDrop \/ QueueAlarm \/ QueueEvict

SpecQueue == InitQueue /\ [][NextQueue]_vars

\* The connections that joined the waiting room before this step and are
\* still joined after it, in join order; those among them that are active
\* after it
StillJoined ==
  SelectSeq(hist.queue, LAMBDA c : c \in Ids(players') \cup Ids(waitingRoom'))
Promoted == Range(hist.queue) \cap Ids(players')

\* The step promoted the first connections of the join order and left the
\* others waiting in join order, ahead of whoever joined later
FifoOf(q, k) ==
  /\ \A i \in 1..k : q[i] \in Ids(players')
  /\ Len(waitingRoom') >= Len(q) - k
  /\ SubSeq(IdSeq(waitingRoom'), 1, Len(q) - k) = SubSeq(q, k + 1, Len(q))
  /\ Len(players') <= MAX_PLAYERS
  /\ Len(q) > k => Len(players') = MAX_PLAYERS

\* C18: waiting entries are promoted strictly in join order, only while the
\* active roster is below MAX_PLAYERS (5); those not promoted stay in the
\* waiting room in their join order, ahead of any later joiner.
C18_PromotionIsFifo ==
  [][Promoted # {} => FifoOf(StillJoined, Cardinality(Promoted))]_vars

\* The same of the promotions by an instance whose waiting map is still the
\* one the joins built (no restart has rebuilt it in another order)
PromotionIsFifoInMemory ==
  [][(Promoted # {} /\ initialized /\ IdSeq(waitingRoom) = hist.queue)
       => FifoOf(StillJoined, Cardinality(Promoted))]_vars

\* The connections this step moved from the waiting room to the active roster
PromotedNow == Ids(Found.waitingRoom) \cap Ids(players')

NoSettlement ==
  /\ \A i \in 1..Len(sent') : sent'[i].type # "gameOver"
  /\ awarded' = awarded

\* C20: whenever a handler empties the active roster while the state is
\* COUNTDOWN, PLAYING or GAME_OVER (a disconnect, or a gameState broadcast
\* that evicts a dead connection), the room is in LOBBY when that handler
\* ends, and the abandoned round is not settled.
C20_EmptyRosterReturnsAtOnce ==
  [][(/\ initialized'
      /\ Found.state # "LOBBY"
      /\ Len(Found.players) > 0
      /\ Len(players') = 0)
       => (state' = "LOBBY" /\ NoSettlement)]_vars

\* What holds: a disconnect that leaves no active player ends in LOBBY,
\* unsettled; a handler that empties the roster otherwise is a PLAYING alarm
\* whose broadcast evicted dead connections: it ends in PLAYING with the
\* fallback alarm pending, and the alarm that finds no player returns to
\* LOBBY, unsettled.
C20_EmptyRosterReturns ==
  /\ [][\A c \in DOMAIN att :
          (Found.state # "LOBBY" /\ QueueCloseOf(c) /\ Len(players') = 0)
            => (state' = "LOBBY" /\ NoSettlement)]_vars
  /\ [][(/\ initialized'
         /\ Found.state # "LOBBY"
         /\ Len(Found.players) > 0
         /\ Len(players') = 0
         /\ state' # "LOBBY")
          => /\ state' = "PLAYING"
             /\ phys'.ran
             /\ alarm' - now' = FALLBACK_ALARM_MS
             /\ NoSettlement]_vars
  /\ [][(Found.state = "PLAYING" /\ Len(Found.players) = 0 /\ QueueAlarm)
          => (state' = "LOBBY" /\ NoSettlement)]_vars

\* The alarm's broadcast has just evicted the last active player: the round
\* goes on with nobody in it
C20_PlayingWithNobody ==
  /\ initialized
  /\ state = "PLAYING"
  /\ Len(players) = 0
  /\ phys.ran
  /\ alarm # NoAlarm

\* --- Restoration (SpecQueue) ---
\* The live connections whose attachment says 'player'
LivePlayers == {c \in sockets : att[c].role = "player"}

\* The time to the alarm that is pending in room r (NoAlarm when none is)
DueIn(r) == IF r.alarm = NoAlarm THEN NoAlarm ELSE r.alarm - r.now

\* The times after which a restart is looked at, in ms from now: at once,
\* before a 1 s alarm is due, after a 5 s alarm was due
RestartDelays == {0, 300, 7000}

\* The room a restart restores when its first event comes d ms from now
RestartedAt(d) == EnsureInitialized(Begin(Evict(Cur), now + d))

\* The restored room r has the stored state and one alarm pending for it,
\* or is the LOBBY made of a stored PLAYING without players
Rearmed(r) ==
  /\ (gs.state = "PLAYING" /\ LivePlayers # {})
       => (r.state = "PLAYING" /\ DueIn(r) = FALLBACK_ALARM_MS)
  /\ gs.state = "COUNTDOWN" => (r.state = "COUNTDOWN" /\ DueIn(r) = MsPerSecond)
  /\ gs.state = "GAME_OVER"
       => (r.state = "GAME_OVER" /\ DueIn(r) = GAME_OVER_DISPLAY_SECONDS * MsPerSecond)
  /\ (gs.state = "LOBBY" /\ LivePlayers # {})
       => (r.state = "LOBBY" /\ DueIn(r) = LOBBY_IDLE_TIMEOUT * MsPerSecond)
  /\ (gs.state = "PLAYING" /\ LivePlayers = {})
       => (r.state = "LOBBY" /\ r.coins = << >>)
  /\ Ids(r.players) = LivePlayers

\* C21: a restart in any state restores the stored state with one alarm
\* pending for it: due in 1 s for PLAYING with players, 1 s for COUNTDOWN,
\* 5 s for GAME_OVER, 20 s for LOBBY with players, whatever alarm was pending
\* before; and a stored PLAYING with no player among the live connections is
\* restored as LOBBY with no falling objects.
C21_RestartRearms ==
  gs # NoGs => \A d \in RestartDelays : Rearmed(RestartedAt(d))

\* An instance has just been constructed over a stored PLAYING state whose
\* players' connections are all gone
C21_PlayingWithoutPlayers ==
  /\ ~initialized
  /\ gs # NoGs
  /\ gs.state = "PLAYING"
  /\ LivePlayers = {}
  /\ Found.state = "LOBBY"

\* --- The stored snapshot (SpecQueue) ---
\* C24: after every handler the state field of the stored snapshot is the
\* state in memory (every handler that changes the state stores a snapshot),
\* the handler that restores a PLAYING state without players as LOBBY
\* included.
C24_SnapshotStateCurrent == initialized => (gs # NoGs /\ gs.state = state)

\* The stored state is the state in memory, or it is the PLAYING that a
\* restart restored as an empty LOBBY
SnapshotStateCurrentUnlessRepaired ==
  initialized =>
    /\ gs # NoGs
    /\ \/ gs.state = state
       \/ gs.state = "PLAYING" /\ state = "LOBBY" /\ players = << >> /\ coins = << >>

\* --- Dead connections in a broadcast (SpecQueue) ---
\* The connections in the maps of the room the handler works on
Tracked == Ids(Found.players) \cup Ids(Found.waitingRoom)

\* C27: in a gameState broadcast a connection whose send throws is removed
\* from the players / waiting map, every other connection of the maps gets
\* the payload, and the handler goes on: the broadcast is stamped, the
\* attachments are saved and the next fallback alarm is set.
C27_DeadConnectionEvicted ==
  [][(phys'.ran /\ state' = "PLAYING")
       => /\ \A c \in Tracked :
               IF c \in sockets
                 THEN /\ c \in Ids(players') \cup Ids(waitingRoom')
                      /\ \E i \in 1..Len(sent') :
                           sent'[i].to = c /\ sent'[i].type = "gameState"
                 ELSE /\ c \notin Ids(players') \cup Ids(waitingRoom')
                      /\ \A i \in 1..Len(sent') : sent'[i].to # c
          /\ lastBroadcastTime' = now'
          /\ pendingCollected' = << >>
          /\ alarm' - now' = FALLBACK_ALARM_MS]_vars

\* A broadcast has just evicted a dead player and reached a player that
\* comes after it in the map
C27_EvictedDuringBroadcast ==
  /\ phys.ran
  /\ state = "PLAYING"
  /\ \E c \in DOMAIN att \ sockets, d \in Ids(players) :
       /\ att[c].role = "player"
       /\ c \notin Ids(players)
       /\ c < d
       /\ HasMsg(d, "gameState")

\* --- Malformed input (SpecInput): the rounds of SpecQueue, and frames ---
\* --- the room must drop                                             ---
\* Frames that would act if they were well formed: a binary frame, a frame
\* of 513 characters, text that is not JSON, a move whose x is not a number
Malformed(f) ==
  {[f EXCEPT !.text = FALSE], [f EXCEPT !.length = MaxFrameLength + 1],
   [f EXCEPT !.parses = FALSE]}
BadFrames ==
  Malformed(JoinFrame(TRUE, TRUE)) \cup Malformed(MoveFrame(BurstX))
    \cup {[MoveFrame(BurstX) EXCEPT !.xIsNaN = TRUE]}

\* Connection c sends frame f
InputFrom(c, f) ==
  Commit(Rebase(TrackQueue(Found,
    Finish(WebSocketMessage(Begin(Cur, now), c, f, Draw0)))))

InputBad == \E c \in sockets, f \in BadFrames : InputFrom(c, f)
InputRejected == \E c \in sockets : InputFrom(c, JoinFrame(FALSE, TRUE))

\* One active player, connections 2 and 3 waiting, connection 4 not joined
InitInput ==
  \E st \in {"COUNTDOWN", "PLAYING", "GAME_OVER"} : Is(QueueStart(st, 1, <<2, 3>>))

NextInput ==
  QueueJoin \/ QueueClose \/ QueueAlarm \/ QueueEvict \/ InputBad \/ InputRejected

SpecInput == InitInput /\ [][NextInput]_vars

\* The handler left the room as it found it and sent `out`
Dropped(out) ==
  /\ state' = Found.state
  /\ players' = Found.players
  /\ waitingRoom' = Found.waitingRoom
  /\ timeLeft' = Found.timeLeft
  /\ coins' = Found.coins
  /\ nextCoinId' = Found.nextCoinId
  /\ ~phys'.ran
  /\ gs' = gs
  /\ att' = att
  /\ sockets' = sockets
  /\ awarded' = awarded
  /\ sent' = out

C30_NothingForUnjoined ==
  \A i \in 1..Len(sent) :
    (sent[i].to \in DOMAIN att /\ att[sent[i].to].role = "new")
      => sent[i].type \in {"welcome", "nameRejected"}

\* A round has just ended: the gameOver went to the joined connections and
\* not to the one that has not joined
C30_GameOverSkipsUnjoined ==
  /\ state = "GAME_OVER"
  /\ Unjoined # {}
  /\ \E i \in 1..Len(sent) : sent[i].type = "gameOver"
  /\ \A c \in Unjoined : \A i \in 1..Len(sent) : sent[i].to # c

\* --- The socket limit (SpecFull): connection requests keep coming, the ---
\* --- connections join, a few close, the alarm fires outside rounds,    ---
\* --- the instance is evicted                                           ---
FullExtra == 2
FullJoins == 2
FullCloses == 1

\* The room is within one connection of the limit
NearLimit == Cardinality(sockets) >= MaxSockets - 1

\* Observation: one more connection request that found the limit reached
CountRefused(found, w) ==
  IF Cardinality(found.sockets) >= MaxSockets THEN [w EXCEPT !.hist.refused = @ + 1]
  ELSE w

\* A connection request arrives
FetchNow == Commit(Rebase(CountRefused(Found, Finish(Fetch(Begin(Cur, now))))))

FullConnect == hist.refused < FullExtra /\ FetchNow
FullJoin ==
  /\ ~MidRound
  /\ Cardinality(sockets \ Unjoined) < FullJoins
  /\ \E c \in NextToJoin : DoMessage(0, c, JoinFrame(TRUE, TRUE), Draw0)
FullClose ==
  /\ NearLimit
  /\ Issued - Cardinality(sockets) < FullCloses
  /\ \E c \in sockets : DoClose(0, c)
FullAlarm ==
  /\ NearLimit
  /\ gs.state = "PLAYING" => Elapsed < FullExtra * FALLBACK_ALARM_MS
  /\ DoAlarm(Draw0)
FullEvict == NearLimit /\ DoEvict

NextFull == FullConnect \/ FullJoin \/ FullClose \/ FullAlarm \/ FullEvict

SpecFull == Init /\ [][NextFull]_vars

\* C23: the room never has more than MaxSockets (20) open connections; a
\* connection request that arrives while 20 are open is turned away: no
\* socket is accepted, no player id is handed out, no message is sent and
\* the room (state, rosters, objects, snapshot, attachments, alarm) stays as
\* the request found it.
C23_SocketLimit ==
  /\ [](Cardinality(sockets) <= MaxSockets)
  /\ [][(Cardinality(sockets) = MaxSockets /\ FetchNow)
          => /\ sockets' = sockets
             /\ att' = att
             /\ nextPlayerId' = Found.nextPlayerId
             /\ gs' = gs
             /\ sent' = << >>
             /\ state' = Found.state
             /\ players' = Found.players
             /\ waitingRoom' = Found.waitingRoom
             /\ coins' = Found.coins
             /\ timeLeft' = Found.timeLeft
             /\ alarm' = Found.alarm]_vars

\* A connection request has just been turned away by a room that holds
\* 20 sockets, in the middle of a round
C23_FullHouse ==
  /\ initialized
  /\ state = "PLAYING"
  /\ Cardinality(sockets) = MaxSockets
  /\ hist.refused > 0
  /\ sent = << >>
  /\ nextPlayerId = MaxSockets + 1

\* --- The end of a round and after (SpecEnd): the last instants of a    ---
\* --- round, moves before and after the game over, a late joiner, the   ---
\* --- alarm, evictions, and the awardCoins request that completes, fails ---
\* --- or stays pending; until the room is back in LOBBY                 ---
EndJoiners == 1

\* A completion that retries a failed request
AwardCoinsDoneRetrying(w, outcome) ==
  [w EXCEPT !.hist.settled = Append(@, outcome),
            !.awarded = IF outcome = "failed" THEN Append(@, @[Len(@)]) ELSE @]

\* awardCoins(...).catch(() => {}): the request completes with an outcome;
\* nothing is chained on success and the catch callback is empty
AwardCoinsDone(w, outcome) == [w EXCEPT !.hist.settled = Append(@, outcome)]

\* The room has not returned to the lobby
EndOn == gs.state # "LOBBY" /\ (initialized => state # "LOBBY")

\* A move comes 50 or 200 ms after the last event during the round, at once
\* after it
EndDelays ==
  IF Found.state = "PLAYING" THEN {BROADCAST_THROTTLE_MS, MAX_PHYSICS_DT} ELSE {0}

EndMove ==
  /\ EndOn
  /\ \E c \in sockets, d \in EndDelays :
       /\ alarm # NoAlarm => d <= alarm - now
       /\ DoMessage(d, c, MoveFrame(100), Draw0)
EndConnect == EndOn /\ Issued < Len(Found.players) + EndJoiners /\ DoFetch(0)
EndJoin == EndOn /\ \E c \in NextToJoin : DoMessage(0, c, JoinFrame(TRUE, TRUE), Draw0)
EndAlarm == EndOn /\ DoAlarm(Draw0)
\* Evictions stop once the round has run its 60 seconds
EndEvict ==
  /\ EndOn
  /\ gs.state = "PLAYING" => Elapsed < GAME_DURATION * MsPerSecond
  /\ DoEvict
EndOutcome ==
  /\ Len(hist.settled) < Len(awarded)
  /\ \E outcome \in {"ok", "failed"} : Commit(AwardCoinsDone(Begin(Cur, now), outcome))

NextEnd == EndMove \/ EndConnect \/ EndJoin \/ EndAlarm \/ EndEvict \/ EndOutcome

EndPlayers == 2
InitEnd ==
  \E n \in 1..EndPlayers : \E scores \in [1..n -> FinalScores] :
    Is(SettleStart(scores))

SpecEnd == InitEnd /\ [][NextEnd]_vars

\* The handler sent a gameOver or dispatched an awardCoins batch
Settled ==
  \/ Len(awarded') > Len(awarded)
  \/ \E i \in 1..Len(sent') : sent'[i].type = "gameOver"

\* C25: the settlement (the ranking with its awards, the awardCoins batch)
\* is made only by the handler that takes the room from PLAYING to
\* GAME_OVER, a move or the fallback alarm, and once per PLAYING period:
\* nothing that arrives during GAME_OVER settles again.
C25_SettledOnce ==
  /\ [][Settled => /\ Found.state = "PLAYING"
                   /\ state' = "GAME_OVER"
                   /\ phys'.ran
                   /\ timeLeft' = 0
                   /\ awarded = << >>
                   /\ awarded' = <<CoinAwards(Ranked(SortByScore(players')))>>]_vars
  /\ [][(Found.state = "PLAYING" /\ state' = "GAME_OVER") => Settled]_vars
  /\ [](Len(awarded) <= 1)

\* A connection has just joined during GAME_OVER and was put in the waiting
\* room: nothing was settled again
C25_JoinAfterGameOver ==
  /\ initialized
  /\ state = "GAME_OVER"
  /\ Len(awarded) = 1
  /\ ~phys.ran
  /\ waitingRoom # << >>
  /\ \E i \in 1..Len(sent) : sent[i].type = "waiting"

\* The awardCoins requests that are still in flight
InFlight == Len(awarded) - Len(hist.settled)

\* C26: the awardCoins request cannot touch the room. The handler that
\* dispatches it leaves the room in GAME_OVER with the 5-second display alarm
\* set before any outcome is known; the request's completion, with success or
\* with failure, changes nothing in the room and dispatches nothing again;
\* and the display alarm takes the room to LOBBY whether the request has
\* succeeded, failed or is still in flight.
C26_AwardOutcomeIgnored ==
  /\ [][Len(awarded') > Len(awarded) =>
          /\ state' = "GAME_OVER"
          /\ gs'.state = "GAME_OVER"
          /\ alarm' = GAME_OVER_DISPLAY_SECONDS * MsPerSecond
          /\ hist'.settled = << >>]_vars
  /\ [][hist'.settled # hist.settled =>
          /\ awarded' = awarded
          /\ <<state, gs, alarm, players, waitingRoom, sockets, att, initialized>>' =
             <<state, gs, alarm, players, waitingRoom, sockets, att, initialized>>
          /\ sent' = << >>]_vars
  /\ [][(Found.state = "GAME_OVER" /\ alarm = 0 /\ alarm' # alarm) =>
          (state' = "LOBBY" /\ gs'.state = "LOBBY" /\ awarded' = awarded)]_vars
  /\ [](InFlight \in 0..1 /\ Len(awarded) \in 0..1)

\* Back in the lobby after a round whose awardCoins request failed
C26_LobbyAfterFailedAward ==
  /\ initialized
  /\ state = "LOBBY"
  /\ Len(awarded) = 1
  /\ hist.settled = <<"failed">>

\* Back in the lobby while the awardCoins request is still in flight
LobbyWithAwardInFlight ==
  /\ initialized
  /\ state = "LOBBY"
  /\ InFlight = 1


\* --- The hat shop (SpecShop): buyHat requests of one user run side by  ---
\* --- side, each a chain of D1 statements; a statement is atomic, the   ---
\* --- statements of different requests interleave freely, and a round's ---
\* --- award may be credited in between                                  ---
ShopRequests == 3
ShopAwards == 1
ShopBalances == {0, 50, 100, 125}
ShopHats == {"cap", "beanie", "headband", "viking", "fez"}

\* hat-catalog.js: the hats the model buys; a hat without an achievement
\* asks for 0 wins
HAT_CATALOG ==
  [cap |-> [cost |-> 0, wins |-> 0],
   beanie |-> [cost |-> 50, wins |-> 0],
   headband |-> [cost |-> 75, wins |-> 0],
   viking |-> [cost |-> 0, wins |-> 3]]

meetsAchievement(hat, user) == user.wins >= hat.wins

Ended(req, status) == [req EXCEPT !.pc = "done", !.status = status]

\* buyHat: the catalog lookup, then the request waits for its first SELECT
BuyHatBegin(D, hatId) ==
  LET req == [hat |-> hatId, pc |-> "user", status |-> 0,
              user |-> [coins_balance |-> 0, wins |-> 0]]
  IN [D EXCEPT !.reqs =
        Append(@, IF hatId \in DOMAIN HAT_CATALOG THEN req ELSE Ended(req, 404))]

\* SELECT * FROM users WHERE user_id = ?: the row as it is now
SelectUser(D, r) ==
  [D EXCEPT !.reqs[r].user = [coins_balance |-> D.balance, wins |-> D.wins],
            !.reqs[r].pc = "owned"]

\* SELECT 1 FROM user_hats ..., then the conditions on the row read earlier
SelectOwned(D, r) ==
  LET req == D.reqs[r]
      hat == HAT_CATALOG[req.hat]
  IN [D EXCEPT !.reqs[r] =
        IF req.hat \in D.hats THEN Ended(req, 409)
        ELSE IF ~meetsAchievement(hat, req.user) THEN Ended(req, 403)
        ELSE IF req.user.coins_balance < hat.cost THEN Ended(req, 403)
        ELSE [req EXCEPT !.pc = "update"]]

\* An UPDATE that debits whatever the balance is
DebitAlways(balance, cost) == [balance |-> balance - cost, changes |-> 1]

\* UPDATE users SET coins_balance = coins_balance - ?
\*   WHERE user_id = ? AND coins_balance >= ?
DebitIfCovered(balance, cost) ==
  IF balance >= cost THEN [balance |-> balance - cost, changes |-> 1]
  ELSE [balance |-> balance, changes |-> 0]

\* The UPDATE runs; no row changed means 'Not enough coins'
UpdateBalance(D, r) ==
  LET req == D.reqs[r]
      res == DebitIfCovered(D.balance, HAT_CATALOG[req.hat].cost)
  IN [D EXCEPT !.balance = res.balance,
               !.reqs[r] = IF res.changes = 0 THEN Ended(req, 403)
                           ELSE [req EXCEPT !.pc = "insert"]]

\* INSERT OR IGNORE INTO user_hats
InsertHat(D, r) ==
  [D EXCEPT !.hats = @ \cup {D.reqs[r].hat}, !.reqs[r].pc = "profile"]

\* return getOrCreateUser(db, userId): the row as it is now
BuyHatReturn(D, r) ==
  [D EXCEPT !.reqs[r] =
     Ended([@ EXCEPT !.user = [coins_balance |-> D.balance, wins |-> D.wins]], 200)]

\* awardCoins: the user's UPDATE of a round's batch
AwardCredit(D, coinsEarned) ==
  [D EXCEPT !.balance = @ + coinsEarned, !.credits = @ + 1]

At(pc) == {r \in 1..Len(d1.reqs) : d1.reqs[r].pc = pc}
Shop(D) == Commit([Cur EXCEPT !.d1 = D])

InitShop ==
  \E b \in ShopBalances : Is([Constructed(EmptyPlatform) EXCEPT !.d1.balance = b])

ShopRequest ==
  /\ Len(d1.reqs) < ShopRequests
  /\ \E hatId \in ShopHats : Shop(BuyHatBegin(d1, hatId))
ShopSelectUser == \E r \in At("user") : Shop(SelectUser(d1, r))
ShopSelectOwned == \E r \in At("owned") : Shop(SelectOwned(d1, r))
ShopUpdate == \E r \in At("update") : Shop(UpdateBalance(d1, r))
ShopInsert == \E r \in At("insert") : Shop(InsertHat(d1, r))
ShopReturn == \E r \in At("profile") : Shop(BuyHatReturn(d1, r))
ShopAward ==
  /\ d1.credits < ShopAwards
  /\ Shop(AwardCredit(d1, ParticipationBonus))

NextShop ==
  \/ ShopRequest \/ ShopSelectUser \/ ShopSelectOwned \/ ShopUpdate
  \/ ShopInsert \/ ShopReturn \/ ShopAward

SpecShop == InitShop /\ [][NextShop]_vars

\* C29: whatever the interleaving of the buyHat requests of one user, the
\* balance is never negative, and the balance goes down only in a
\* request's UPDATE, by the hat's cost, when the balance at that moment
\* covers the cost.
C29_BalanceNeverNegative ==
  /\ [](d1.balance >= 0)
  /\ [][d1'.balance < d1.balance =>
          \E r \in At("update") :
            LET cost == HAT_CATALOG[d1.reqs[r].hat].cost
            IN /\ d1'.reqs[r].pc = "insert"
               /\ d1.balance >= cost
               /\ d1'.balance = d1.balance - cost]_vars

\* A request that read a sufficient balance was refused by its UPDATE:
\* another request had spent the coins in between
C29_RefusedAtUpdate ==
  \E r \in At("done") :
    /\ d1.reqs[r].status = 403
    /\ meetsAchievement(HAT_CATALOG[d1.reqs[r].hat], d1.reqs[r].user)
    /\ d1.reqs[r].user.coins_balance >= HAT_CATALOG[d1.reqs[r].hat].cost
    /\ d1.balance < HAT_CATALOG[d1.reqs[r].hat].cost

\* Two requests for the same hat were both debited
OneHatPaidTwice ==
  \E r, q \in At("done") :
    /\ r # q
    /\ d1.reqs[r].hat = d1.reqs[q].hat
    /\ d1.reqs[r].status = 200
    /\ d1.reqs[q].status = 200
    /\ HAT_CATALOG[d1.reqs[r].hat].cost > 0


\* --- Left to the alarm (SpecLive): a round with one player, one waiting  ---
\* --- connection and one that has not joined; joins, closes, dead        ---
\* --- sockets and evictions happen while the round is young, then the    ---
\* --- room goes quiet: after that only the alarm fires, and the instance ---
\* --- is evicted at most LiveRestarts times, early in the round          ---
LiveRestarts == 1

LiveLeaves == 1

Quiet == hist.quiet

\* A round being played has LiveTime ms left on its clock
LiveTime == 1000
LiveStart(st) ==
  LET w == QueueStart(st, 1, <<2>>)
  IN IF st # "PLAYING" THEN w
     ELSE PersistState(
            [w EXCEPT !.timeLeft = LiveTime,
                      !.round.start = 0 - (GAME_DURATION * MsPerSecond - LiveTime),
                      !.round.low = LiveTime])

InitLive == \E st \in {"COUNTDOWN", "PLAYING", "GAME_OVER"} : Is(LiveStart(st))

LiveJoin ==
  /\ ~Quiet
  /\ QueueOn
  /\ \E c \in NextToJoin : DoMessage(0, c, JoinFrame(TRUE, TRUE), Draw0)
LiveClose ==
  /\ ~Quiet
  /\ QueueOn
  /\ \E c \in DOMAIN att :
       /\ c \in sockets => Left < LiveLeaves
       /\ Commit(Rebase(Finish(WebSocketClose(Begin(Cur, now), c))))
LiveDrop ==
  /\ ~Quiet
  /\ QueueOn
  /\ Left < LiveLeaves
  /\ \E c \in sockets : Commit(Drop(Cur, c))
LiveEvict ==
  /\ QueueOn
  /\ Quiet => hist.restarts < LiveRestarts
  /\ initialized
  /\ Commit([Evict(Cur) EXCEPT !.hist.restarts = IF Quiet THEN @ + 1 ELSE @])
\* The last message has been handled
LiveQuiet ==
  /\ ~Quiet
  /\ Commit([Begin(Cur, now) EXCEPT !.hist.quiet = TRUE])
\* The platform delivers the pending alarm; while messages can still come,
\* the model follows the room for the first QueueWindow ms of its round only
AlarmDue == alarm # NoAlarm /\ (Quiet \/ QueueOn)
Beat(w) == [w EXCEPT !.hist.beat = 1 - @]
LiveAlarm ==
  /\ AlarmDue
  /\ Commit(Beat(Rebase(Finish(Alarm(Begin(Cur, Max(now, alarm)), Draw0)))))

NextLive == LiveJoin \/ LiveClose \/ LiveDrop \/ LiveEvict \/ LiveQuiet \/ LiveAlarm

SpecLive == InitLive /\ [][NextLive]_vars

\* The steps of LiveAlarm, told by what they do to hist: no other action
\* changes hist.beat, and LiveAlarm changes nothing else in hist
AlarmDelivered == AlarmDue /\ hist' = [hist EXCEPT !.beat = 1 - @]

\* A pending alarm is delivered: the platform runs alarm() at the deadline
\* and retries it until the handler has returned
FairLive == SpecLive /\ WF_hist(AlarmDelivered)

\* C22: once no more messages arrive, a room in COUNTDOWN, PLAYING or
\* GAME_OVER eventually is in LOBBY, and a room in LOBBY with an active
\* player eventually is in COUNTDOWN, by the alarm alone.
C22_AlarmDrivesTheRoom ==
  /\ (Quiet /\ Found.state \in {"COUNTDOWN", "PLAYING", "GAME_OVER"})
       ~> (Found.state = "LOBBY")
  /\ (Quiet /\ Found.state = "LOBBY" /\ Found.players # << >>)
       ~> (Found.state = "COUNTDOWN")

\* Left to the alarm early in a round and restarted once since, the room has
\* played the round out, shown the scores and returned to the lobby
C22_RoundPlayedOutByAlarm ==
  /\ Quiet
  /\ hist.restarts = LiveRestarts
  /\ initialized
  /\ state = "LOBBY"
  /\ gs.state = "LOBBY"
  /\ players # << >>
  /\ awarded # << >>

\* The requests whose UPDATE has debited the cost of hat hatId
Debited(hatId) ==
  {r \in 1..Len(d1.reqs) :
     /\ d1.reqs[r].hat = hatId
     /\ \/ d1.reqs[r].pc \in {"insert", "profile"}
        \/ d1.reqs[r].pc = "done" /\ d1.reqs[r].status = 200}

\* C40: whatever the interleaving of the buyHat requests of one user for the
\* same hat, at most one of them debits the hat's cost.
C40_OneDebitPerHat == \A hatId \in DOMAIN HAT_CATALOG : Cardinality(Debited(hatId)) <= 1


\* --- The gameOver message (SpecEnd) ---
\* The gameOver messages the last handler delivered to connection c
GameOversTo(c) == {i \in 1..Len(sent) : sent[i].to = c /\ sent[i].type = "gameOver"}

\* The handler has just ended the round
RoundJustEnded ==
  /\ initialized
  /\ state = "GAME_OVER"
  /\ \E i \in 1..Len(sent) : sent[i].type = "gameOver"

\* C39: the handler that ends the round delivers the gameOver message
\* exactly once to each open connection that has joined, active player or
\* waiting entry.
C39_GameOverOnce ==
  RoundJustEnded =>
    \A c \in (Ids(players) \cup Ids(waitingRoom)) \cap sockets :
      Cardinality(GameOversTo(c)) = 1

\* The active players get the gameOver message once
GameOverOnceToPlayers ==
  RoundJustEnded => \A c \in Ids(players) \cap sockets : Cardinality(GameOversTo(c)) = 1

\* The waiting entries get it twice
GameOverTwiceToWaiting ==
  RoundJustEnded => \A c \in Ids(waitingRoom) \cap sockets : Cardinality(GameOversTo(c)) = 2


\* --- Colors (Spec) ---
\* C38: the active players hold pairwise distinct colors, whatever joins
\* and disconnects there have been.
C38_DistinctColors ==
  \A i, j \in 1..Len(ActiveRoster) :
    i # j => ActiveRoster[i].color # ActiveRoster[j].color

\* Without a disconnect the colors are distinct
DistinctColorsWithoutLeave == Issued = Cardinality(sockets) => C38_DistinctColors


\* --- The return to the lobby (SpecQueue) ---
\* The roster is as a new lobby wants it
FreshRoster(ps) ==
  \A i \in 1..Len(ps) :
    /\ ps[i].score = 0
    /\ ps[i].x = StartX
    /\ ps[i].color = PLAYER_COLORS[i]

\* C33: the handler that takes the room from GAME_OVER to LOBBY (the display
\* alarm, or the close of the last active player) removes every falling
\* object, leaves every active player, kept or promoted, with score 0, the
\* centre position and the color of its index, and sets the 20-second idle
\* alarm when the roster is not empty; when it is empty it sets no alarm.
C33_FreshLobby ==
  [][(Found.state = "GAME_OVER" /\ initialized' /\ state' = "LOBBY") =>
       /\ coins' = << >>
       /\ gs'.state = "LOBBY" /\ gs'.coins = << >>
       /\ FreshRoster(players')
       /\ \A c \in Ids(players') \cap sockets' :
            att'[c] = PlayerAttachment(PlayerOf(players', c))
       /\ players' # << >> => alarm' = LOBBY_IDLE_TIMEOUT * MsPerSecond
       /\ players' = << >> => alarm' \in {NoAlarm, alarm}]_vars

\* The display alarm found one player gone and recolored those left, next
\* to the waiting connections it promoted
C33_RecoloredAfterRound ==
  /\ initialized
  /\ state = "LOBBY"
  /\ hist.from = "GAME_OVER"
  /\ hist.promoted # {}
  /\ 1 \notin Ids(players)
  /\ \E i \in 1..Len(players) : players[i].id \notin hist.promoted
  /\ alarm = LOBBY_IDLE_TIMEOUT * MsPerSecond


\* --- The repair of a restored round without players (SpecQueue) ---
\* What a restart reads back, before the alarm is re-armed
Restored == RebuildMaps(LoadSnapshot([Evict(Cur) EXCEPT !.initialized = TRUE]))

\* A restart would find PLAYING stored, no active player and some connection
\* waiting
AbandonedWithWaiters ==
  /\ gs # NoGs
  /\ Restored.state = "PLAYING"
  /\ Restored.players = << >>
  /\ Restored.waitingRoom # << >>

\* C37: a restart that finds PLAYING stored with no active player and some
\* waiting entries leaves the room as _returnToLobby would: in LOBBY, the
\* waiting entries promoted, the idle alarm 20 s ahead.
C37_RepairPromotes ==
  AbandonedWithWaiters =>
    /\ Restarted.state = "LOBBY"
    /\ Restarted.players = ReturnToLobby(Restored).players
    /\ Restarted.waitingRoom = ReturnToLobby(Restored).waitingRoom
    /\ Restarted.alarm = now + LOBBY_IDLE_TIMEOUT * MsPerSecond

\* What the repair does: LOBBY, nothing falling, the maps and the alarm as
\* they were read back
RepairLeavesWaiters ==
  AbandonedWithWaiters =>
    /\ Restarted.state = "LOBBY"
    /\ Restarted.coins = << >>
    /\ Restarted.players = << >>
    /\ Restarted.waitingRoom = Restored.waitingRoom
    /\ Restarted.alarm = alarm


\* --- The timer chain (Spec) ---
\* The room has work to do
HasWork == state \in {"COUNTDOWN", "PLAYING", "GAME_OVER"} \/ players # << >>

\* C35: when a handler has returned, an alarm is pending if the state is
\* COUNTDOWN, PLAYING or GAME_OVER, or LOBBY with an active player.
C35_AlarmPendingWhileWork == (initialized /\ HasWork) => alarm # NoAlarm

\* Back in the lobby after a round, the players kept, the idle alarm set
C35_IdleAlarmAfterRound ==
  /\ initialized
  /\ state = "LOBBY"
  /\ players # << >>
  /\ gs.state = "LOBBY"
  /\ gs.timeLeft = 0
  /\ alarm = LOBBY_IDLE_TIMEOUT * MsPerSecond


\* --- One roster per connection (SpecQueue) ---
\* The attachment of every rostered connection names the map that holds it
RolesNameTheMap(w) ==
  /\ \A c \in Ids(w.players) \cap w.sockets : w.att[c].role = "player"
  /\ \A c \in Ids(w.waitingRoom) \cap w.sockets : w.att[c].role = "waiting"

\* C34: no connection id is both an active player and a waiting entry, and
\* the role in each connection's attachment names the map that holds it.
C34_OneRosterPerConnection ==
  /\ Ids(Found.players) \cap Ids(Found.waitingRoom) = {}
  /\ RolesNameTheMap(Found)

\* A waiting connection promoted by the return to the lobby, its attachment
\* rewritten, while another connection still waits
C34_PromotedAndRelabelled ==
  /\ initialized
  /\ hist.promoted # {}
  /\ hist.promoted \subseteq Ids(players)
  /\ \A c \in hist.promoted \cap sockets : att[c].role = "player"


\* --- Joins while the idle timer runs (SpecLobby): connections connect, ---
\* --- join, join again and close, some time after one another, the     ---
\* --- instance is evicted, the alarm fires up to the start of a round  ---
LobbyConns == 3
LobbyCloses == 1
LobbyGap == 10000
LobbyDelays == {0, LobbyGap}

\* No alarm is overdue d milliseconds from now
Before(d) == alarm = NoAlarm \/ d <= alarm

LobbyConnect == Issued < LobbyConns /\ DoFetch(0)
LobbyJoin ==
  \E d \in LobbyDelays, c \in sockets :
    Before(d) /\ DoMessage(d, c, JoinFrame(TRUE, FALSE), Draw0)
LobbyClose ==
  /\ Issued - Cardinality(sockets) < LobbyCloses
  /\ \E c \in sockets : DoClose(0, c)
LobbyAlarm == Found.state # "PLAYING" /\ DoAlarm(Draw0)
LobbyEvict == DoEvict

NextLobby == LobbyConnect \/ LobbyJoin \/ LobbyClose \/ LobbyAlarm \/ LobbyEvict

SpecLobby == Init /\ [][NextLobby]_vars

\* The pending alarm's deadline, d milliseconds later
Deadline(d) == IF alarm = NoAlarm THEN NoAlarm ELSE alarm - d

\* Connection c, not in a roster, joins a lobby that has k players
JoinsLobbyOf(k, c, d) ==
  /\ Found.state = "LOBBY"
  /\ Len(Found.players) = k
  /\ c \notin Tracked
  /\ Before(d)
  /\ DoMessage(d, c, JoinFrame(TRUE, FALSE), Draw0)

JoinsAgain(c, d) ==
  /\ c \in Tracked
  /\ Before(d)
  /\ DoMessage(d, c, JoinFrame(TRUE, FALSE), Draw0)

\* The rosters, colors, positions, scores and state are as the handler found
\* them, and nothing was sent
LeftAsFound ==
  /\ state' = Found.state
  /\ players' = Found.players
  /\ waitingRoom' = Found.waitingRoom
  /\ sent' = << >>

\* C32: a join from a connection that is an active player or a waiting
\* entry changes nothing: rosters, colors, positions, scores, state and the
\* pending alarm are as before, and no message is sent.
C32_DuplicateJoinIsNoOp ==
  [][\A c \in sockets, d \in LobbyDelays :
       JoinsAgain(c, d) => LeftAsFound /\ alarm' = Deadline(d)]_vars

\* What holds: the same on an instance that is running; when the join is the
\* first event after a restart, the alarm is the one the restoration set.
C32_DuplicateJoinIgnored ==
  [][\A c \in sockets, d \in LobbyDelays :
       JoinsAgain(c, d)
         => /\ LeftAsFound
            /\ alarm' = IF initialized THEN Deadline(d)
                        ELSE Rebase(EnsureInitialized(Begin(Cur, now + d))).alarm]_vars

\* A player's second join has just gone unanswered, the idle timer part-way
C32_SecondJoinUnanswered ==
  /\ initialized
  /\ state = "LOBBY"
  /\ players # << >>
  /\ sent = << >>
  /\ alarm = LOBBY_IDLE_TIMEOUT * MsPerSecond - LobbyGap


\* --- Waiting for the next round (SpecQueue) ---
\* The state the storage or the running instance holds before the event
Held == IF initialized THEN state ELSE gs.state

\* The event brings the room back to the lobby
BackToLobby == Held # "LOBBY" /\ initialized' /\ state' = "LOBBY"

\* The waiting connections the event found whose socket stays open
StillWaitingFor == Ids(Found.waitingRoom) \cap sockets'

\* C36: a connection in the waiting room that stays connected is an active
\* player after the next return to LOBBY, whatever the active players do.
C36_WaitersJoinNextRound ==
  [][BackToLobby => StillWaitingFor \subseteq Ids(players')]_vars

\* The restart found a PLAYING round without a player and made it a lobby
Repaired == ~initialized /\ gs.state = "PLAYING" /\ Found.state = "LOBBY"

\* The waiting entries the event found and left joined, in the order of the
\* waiting map; the active players that were not waiting
Queued ==
  SelectSeq(IdSeq(Found.waitingRoom),
            LAMBDA c : c \in Ids(players') \cup Ids(waitingRoom'))
KeptNow == Ids(players') \ Ids(Found.waitingRoom)

\* What holds: at a return to LOBBY the players kept come first, then the
\* waiting entries in the order of the waiting map, up to MAX_PLAYERS in
\* all; the others stay in the waiting room.  The lobby a restart makes of
\* a PLAYING round without players promotes nobody.
C36_PromotedWhileRoom ==
  [][BackToLobby =>
       IF Repaired THEN StillWaitingFor \subseteq Ids(waitingRoom')
       ELSE \A i \in 1..Len(Queued) :
              IF Cardinality(KeptNow) + i <= MAX_PLAYERS
                THEN Queued[i] \in Ids(players')
                ELSE Queued[i] \in Ids(waitingRoom')]_vars

\* Back in the lobby with a full roster: one waiting connection promoted,
\* another, its socket open, still waiting
C36_OnePromotedOneLeft ==
  /\ initialized
  /\ state = "LOBBY"
  /\ Len(players) = MAX_PLAYERS
  /\ hist.promoted # {}
  /\ Ids(waitingRoom) \cap sockets # {}

====
